---------------------------- MODULE Spec2Model ----------------------------
(***************************************************************************)
(* Doctor scoring system: weight-configuration store (SQL triggers), the   *)
(* two weight-configuration page modules (MedicalWeightsModule and         *)
(* WeightsModule), the example scoring function and the score ranking      *)
(* table.                                                                  *)
(*                                                                         *)
(* Numbers.  JavaScript numbers are modelled as integers in hundredths     *)
(* (22.05 is 2205, 0.4 is 40); NaN is the distinguished value NaN with the *)
(* comparison and || rules of JavaScript.  Where a comparison against an   *)
(* epsilon lands exactly on the epsilon, binary rounding decides the       *)
(* outcome, so the model lets it go either way.                            *)
(***************************************************************************)
EXTENDS Integers, Sequences, FiniteSets, TLC

VARIABLES
    configs,            \* medical_weight_configs: id -> row (present, is_default)
    seq,                \* AUTOINCREMENT counter of medical_weight_configs
    module,             \* which class drives the weights page
    phase,              \* how far init() has come: "constructed" | "loaded" | "ready"
    currentWeights,     \* this.currentWeights
    presetSchemes,      \* this.presetSchemes
    hasUnsavedChanges,  \* this.hasUnsavedChanges
    modal,              \* the save modal of MedicalWeightsModule: "closed" | "open"
    request,            \* the store request in flight of the running load or save
    notification,       \* what app.showNotification showed last: "none",
                        \* "load_failed", "weight_sum_error", "file_failed"
                        \* or "other"
    example,            \* the argument of calculateExampleScore
    score,              \* the value calculateExampleScore returned
    population,         \* the score records the store holds
    scores,             \* DoctorAnalysisSystem.scores
    rows,               \* the rows renderScoresTable wrote to the table body
    prevRows,           \* the rows of the previous rendering
    currentScores,      \* ScoringModule.currentScores
    scoreFilter,        \* the value of the score-filter select
    rankingsGrid,       \* the cards in the rankings grid
    badges,             \* the badge getScoreBadge gave each entry of currentScores
    disk,               \* the files the user can pick in the upload dialog
    importData,         \* ImportModule.importData
    validationResults,  \* ImportModule.validationResults
    importResults,      \* ImportModule.importResults
    importStep,         \* ImportModule.importStep
    reading,            \* the handleFileSelect call that awaits readFileAsText
    commit,             \* the performImport call: its locals and requests in flight
    uncaught,           \* the error that last escaped a handler of ImportModule
    lastStored,         \* the weights last loaded from or saved to the store: no field
                        \* of the program, a record kept where Init starts it with
                        \* NothingStored, and null elsewhere
    activeTab,          \* ScoringModule.activeTab
    recalculations,     \* the recalculation requests ScoringModule and ImportModule sent
    recommit,           \* a second performImport call running beside the first
    isAnalyzing,        \* MedicalWeightsModule.isAnalyzing
    analysis,           \* the analyze requests in flight
    csvText,            \* a CSV text: its lines, a line as its characters or chunks
    csvParsed,          \* what parseCSVLine, parseCSV and validateData make of csvText
    doctors,            \* the doctors handed to the score-distribution charts
    buckets             \* the bucket counts the two charts computed

storeVars == <<configs, seq>>
pageVars  == <<module, phase, currentWeights, presetSchemes, hasUnsavedChanges,
               modal, request, notification>>
scoreVars == <<example, score>>
rankVars  == <<population, scores, rows, prevRows>>
\* the page variables other than the notification
pageRest  == <<module, phase, currentWeights, presetSchemes, hasUnsavedChanges,
               modal, request>>
tierVars  == <<currentScores, scoreFilter, rankingsGrid, badges>>
importVars == <<disk, importData, validationResults, importResults, importStep,
                reading, commit, uncaught>>
analysisVars == <<isAnalyzing, analysis>>
parseVars == <<csvText, csvParsed>>
chartVars == <<doctors, buckets>>
\* the variables the stores, pages, rankings and import steps above leave alone
restVars  == <<lastStored, activeTab, recalculations, recommit, analysisVars, parseVars,
               chartVars>>
vars == <<configs, seq, module, phase, currentWeights, presetSchemes,
          hasUnsavedChanges, modal, request, notification, example, score, population,
          scores, rows, prevRows, currentScores, scoreFilter, rankingsGrid, badges, disk,
          importData, validationResults, importResults, importStep, reading,
          commit, uncaught, lastStored, activeTab, recalculations, recommit, isAnalyzing,
          analysis,
          csvText, csvParsed, doctors, buckets>>

Abs(x) == IF x < 0 THEN -x ELSE x

(***************************************************************************)
(* JavaScript number semantics                                             *)
(***************************************************************************)
NaN == -1000000

IsNaN(v) == v = NaN

\* a + b
Add(a, b) == IF IsNaN(a) \/ IsNaN(b) THEN NaN ELSE a + b

\* a < b : false when either side is NaN
Lt(a, b) == ~IsNaN(a) /\ ~IsNaN(b) /\ a < b

\* a || d : d when a is falsy (0, NaN, undefined)
OrElse(a, d) == IF IsNaN(a) \/ a = 0 THEN d ELSE a

\* d > eps (and d >= eps) for a distance d computed in binary floating point:
\* false for NaN; exactly on eps the rounding of the operands decides (roundsUp).
FloatExceeds(d, eps, roundsUp) == ~IsNaN(d) /\ (d > eps \/ (d = eps /\ roundsUp))

\* Math.abs(a - b)
AbsDiff(a, b) == IF IsNaN(a) \/ IsNaN(b) THEN NaN ELSE Abs(a - b)

(***************************************************************************)
(* The store: table medical_weight_configs and its triggers                *)
(***************************************************************************)
MaxRows == 7

RowIds == 1..MaxRows

NoRow == [present |-> FALSE, is_default |-> 0]

\* INSERT OR IGNORE ... VALUES (1..4): row 1 is the default one
SeededConfigs ==
    [id \in RowIds |->
        IF id <= 4 THEN [present |-> TRUE, is_default |-> IF id = 1 THEN 1 ELSE 0]
        ELSE NoRow]

\* UPDATE medical_weight_configs SET is_default = 0 WHERE is_default = 1 AND id != except
ClearDefaultExcept(t, except) ==
    [id \in RowIds |->
        IF t[id].present /\ t[id].is_default = 1 /\ id # except
        THEN [t[id] EXCEPT !.is_default = 0]
        ELSE t[id]]

\* a trigger whose body clears nothing (the fault C1 rules out)
TriggerNoOp(t, new) == t

\* BEFORE INSERT ... WHEN NEW.is_default = 1
ensure_single_default_medical_weight_insert(t, new) ==
    IF new = 1 THEN ClearDefaultExcept(t, 0) ELSE t

\* BEFORE UPDATE ... WHEN NEW.is_default = 1 AND OLD.is_default = 0
ensure_single_default_medical_weight(t, id, new, old) ==
    IF new = 1 /\ old = 0 THEN ClearDefaultExcept(t, id) ELSE t

\* INSERT INTO medical_weight_configs (..., is_default) VALUES (..., d)
InsertConfig(d) ==
    /\ seq < MaxRows
    /\ LET t == ensure_single_default_medical_weight_insert(configs, d)
       IN  configs' = [t EXCEPT ![seq + 1] = [present |-> TRUE, is_default |-> d]]
    /\ seq' = seq + 1
    /\ UNCHANGED <<pageVars, scoreVars, rankVars, tierVars, importVars, restVars>>

\* UPDATE medical_weight_configs SET is_default = d WHERE id = id
UpdateIsDefault(id, d) ==
    /\ configs[id].present
    /\ LET t == ensure_single_default_medical_weight(configs, id, d, configs[id].is_default)
       IN  configs' = [t EXCEPT ![id] = [present |-> TRUE, is_default |-> d]]
    /\ seq' = seq
    /\ UNCHANGED <<pageVars, scoreVars, rankVars, tierVars, importVars, restVars>>

\* DELETE FROM medical_weight_configs WHERE id = id
DeleteConfig(id) ==
    /\ configs[id].present
    /\ configs' = [configs EXCEPT ![id] = NoRow]
    /\ seq' = seq
    /\ UNCHANGED <<pageVars, scoreVars, rankVars, tierVars, importVars, restVars>>

DefaultRows == {id \in RowIds : configs[id].present /\ configs[id].is_default = 1}

(***************************************************************************)
(* The weights page: MedicalWeightsModule or WeightsModule                 *)
(*                                                                         *)
(* A handler runs to its first await in one step; the rest of it runs in   *)
(* a second step once the store has answered.  The page keeps one load or  *)
(* save in flight at a time.  The save modal of MedicalWeightsModule       *)
(* covers the page: while it is open the sliders, inputs, presets and the  *)
(* reset button do not answer.  app.showNotification does not throw.       *)
(***************************************************************************)
Null == [null |-> TRUE]

\* no call of the kind is waiting for an answer
Idle == [status |-> "idle"]

NoRequest == [kind |-> "none", status |-> "none"]

\* what a request to the store can come back with
Failures == {"network_error", "not_ok", "success_false"}
Outcomes == Failures \cup {"success"}

\* nothing loaded from or saved to the store yet
NothingStored == [stored |-> FALSE]

\* the record of the weights w that a load fetched or a save stored
Stored(w) == IF lastStored = Null THEN Null ELSE w

Pending(kind) == request.kind = kind /\ request.status = "pending"
Settled(kind) == request.kind = kind /\ request.status \in Outcomes

(***************************** MedicalWeightsModule ************************)
MedKeys == {"account_influence_weight", "cost_effectiveness_weight",
            "content_quality_weight", "medical_credibility_weight",
            "roi_prediction_weight"}

coreIndicators ==
    [account_influence_weight |->
        [defaultWeight |-> 2200, minWeight |-> 500, maxWeight |-> 5000],
     cost_effectiveness_weight |->
        [defaultWeight |-> 3500, minWeight |-> 1000, maxWeight |-> 6000],
     content_quality_weight |->
        [defaultWeight |-> 2800, minWeight |-> 1500, maxWeight |-> 5000],
     medical_credibility_weight |->
        [defaultWeight |-> 1000, minWeight |-> 500, maxWeight |-> 3000],
     roi_prediction_weight |->
        [defaultWeight |-> 500, minWeight |-> 200, maxWeight |-> 2500]]

getDefaultWeights == [k \in MedKeys |-> coreIndicators[k].defaultWeight]

MedWeights(a, c, q, m, r) ==
    [account_influence_weight |-> a, cost_effectiveness_weight |-> c,
     content_quality_weight |-> q, medical_credibility_weight |-> m,
     roi_prediction_weight |-> r]

\* payloads of GET /api/weight-configs/active (an absent field is NaN in arithmetic)
ActiveConfigs ==
    { [account_type_weight |-> NaN, cost_effectiveness_weight |-> NaN,
       performance_weight |-> NaN, affinity_weight |-> NaN,
       editing_weight |-> NaN, video_quality_weight |-> NaN],
      [account_type_weight |-> 2000, cost_effectiveness_weight |-> 4000,
       performance_weight |-> 625, affinity_weight |-> 625,
       editing_weight |-> 625, video_quality_weight |-> 625] }

convertToMedicalWeights(config) ==
    MedWeights(OrElse(config.account_type_weight, 2200),
               OrElse(config.cost_effectiveness_weight, 3500),
               OrElse(Add(Add(Add(config.performance_weight, config.affinity_weight),
                              config.editing_weight), config.video_quality_weight),
                      2800),
               1000,
               500)

\* getDefaultPresets(): the one built-in scheme
DefaultPresets == {"balanced"}

\* schemes GET /api/weight-configs/medical/presets can serve: two of the seeded rows
ServerPresets == {"Balanced", "Conservative"}

MedPresetWeights(id) ==
    CASE id = "balanced"     -> MedWeights(2200, 3500, 2800, 1000, 500)
      [] id = "Balanced"     -> MedWeights(2200, 3500, 2800, 1000, 500)
      [] id = "Conservative" -> MedWeights(2000, 4000, 2500, 1200, 300)

\* what the slider and the number input can hand to updateWeight:
\* parseFloat of an empty input is NaN
MedInputValues == {NaN, 0, 1500, 2205}

\* sum + (this.currentWeights[indicator + '_weight'] || 0) over the indicators
MedTotal(w) ==
    OrElse(w.account_influence_weight, 0) + OrElse(w.cost_effectiveness_weight, 0)
    + OrElse(w.content_quality_weight, 0) + OrElse(w.medical_credibility_weight, 0)
    + OrElse(w.roi_prediction_weight, 0)

\* a validateWeightsForSaving that accepts every sum (the fault C5 rules out)
AcceptAnySum(w, roundsUp) == TRUE

\* Math.abs(total - 100) >= 0.1 rejects
validateWeightsForSaving(w, roundsUp) ==
    ~FloatExceeds(AbsDiff(MedTotal(w), 10000), 10, roundsUp)

\* if (value < min) value = min; if (value > max) value = max
ClampWeight(k, value) ==
    LET v1 == IF Lt(value, coreIndicators[k].minWeight)
              THEN coreIndicators[k].minWeight ELSE value
    IN  IF Lt(coreIndicators[k].maxWeight, v1) THEN coreIndicators[k].maxWeight ELSE v1

IsMedical == module = "MedicalWeightsModule"

\* the page's controls answer: init() has attached the listeners and the save
\* modal, which covers the page while it is shown, is closed
MedControlsLive == IsMedical /\ phase = "ready" /\ modal = "closed"

\* loadCurrentWeights(): fetch('/api/weight-configs/active')
MedFetchActive ==
    /\ IsMedical /\ phase = "constructed" /\ request = NoRequest
    /\ request' = [kind |-> "getActive", status |-> "pending"]
    /\ UNCHANGED <<module, phase, currentWeights, presetSchemes, hasUnsavedChanges, modal>>
    /\ UNCHANGED notification
    /\ UNCHANGED <<storeVars, scoreVars, rankVars, tierVars, importVars, restVars>>

\* a loadCurrentWeights whose catch branch assigns nothing, so that
\* currentWeights stays null (the fault C6 rules out)
KeepWeightsOnFailure(req) ==
    IF req.status = "success" THEN convertToMedicalWeights(req.data) ELSE currentWeights

\* what loadCurrentWeights leaves in this.currentWeights
LoadedMedicalWeights(req) ==
    IF req.status = "success" THEN convertToMedicalWeights(req.data)
    ELSE getDefaultWeights

\* loadCurrentWeights(): the rest of the function, once the response is there
MedLoadCurrentWeights ==
    /\ IsMedical /\ Settled("getActive")
    /\ currentWeights' = LoadedMedicalWeights(request)
    /\ phase' = "loaded"
    /\ request' = NoRequest
    /\ UNCHANGED <<module, presetSchemes, hasUnsavedChanges, modal>>
    /\ notification' = IF request.status = "success" THEN notification ELSE "load_failed"
    /\ lastStored' = IF request.status = "success"
                     THEN Stored(convertToMedicalWeights(request.data)) ELSE lastStored
    /\ UNCHANGED <<activeTab, recalculations, recommit, analysisVars, parseVars, chartVars>>
    /\ UNCHANGED <<storeVars, scoreVars, rankVars, tierVars, importVars>>

\* loadPresetSchemes(), then init() attaches the listeners and renders
MedLoadPresetSchemes(ok) ==
    /\ IsMedical /\ phase = "loaded"
    /\ presetSchemes' = IF ok THEN ServerPresets ELSE DefaultPresets
    /\ phase' = "ready"
    /\ UNCHANGED <<module, currentWeights, hasUnsavedChanges, modal, request>>
    /\ UNCHANGED notification
    /\ UNCHANGED <<storeVars, scoreVars, rankVars, tierVars, importVars, restVars>>

MedUpdateWeight(k, value) ==
    /\ MedControlsLive
    /\ currentWeights' = [currentWeights EXCEPT ![k] = ClampWeight(k, value)]
    /\ hasUnsavedChanges' = TRUE
    /\ UNCHANGED <<module, phase, presetSchemes, modal, request>>
    /\ UNCHANGED notification
    /\ UNCHANGED <<storeVars, scoreVars, rankVars, tierVars, importVars, restVars>>

MedApplyPresetScheme(schemeId) ==
    /\ MedControlsLive
    /\ schemeId \in presetSchemes
    /\ currentWeights' = MedPresetWeights(schemeId)
    /\ hasUnsavedChanges' = TRUE
    /\ UNCHANGED <<module, phase, presetSchemes, modal, request>>
    /\ notification' = "other"
    /\ UNCHANGED <<storeVars, scoreVars, rankVars, tierVars, importVars, restVars>>

\* resetWeights(): confirm() is asked only with unsaved changes
MedResetWeights(confirmed) ==
    /\ MedControlsLive
    /\ IF hasUnsavedChanges /\ ~confirmed
       THEN UNCHANGED <<currentWeights, hasUnsavedChanges>>
       ELSE /\ currentWeights' = getDefaultWeights
            /\ hasUnsavedChanges' = FALSE
    /\ UNCHANGED <<module, phase, presetSchemes, modal, request>>
    /\ notification' = IF hasUnsavedChanges /\ ~confirmed THEN notification ELSE "other"
    /\ UNCHANGED <<storeVars, scoreVars, rankVars, tierVars, importVars, restVars>>

\* showSaveWeightsModal(): returns at once when the sum is rejected
MedShowSaveWeightsModal(roundsUp) ==
    /\ MedControlsLive
    /\ modal' = IF validateWeightsForSaving(currentWeights, roundsUp)
                THEN "open" ELSE modal
    /\ UNCHANGED <<module, phase, currentWeights, presetSchemes, hasUnsavedChanges, request>>
    /\ notification' = IF validateWeightsForSaving(currentWeights, roundsUp)
                       THEN notification ELSE "weight_sum_error"
    /\ UNCHANGED <<storeVars, scoreVars, rankVars, tierVars, importVars, restVars>>

\* the modal's cancel button
MedDismissModal ==
    /\ IsMedical /\ modal = "open" /\ request = NoRequest
    /\ modal' = "closed"
    /\ UNCHANGED <<module, phase, currentWeights, presetSchemes, hasUnsavedChanges, request>>
    /\ UNCHANGED notification
    /\ UNCHANGED <<storeVars, scoreVars, rankVars, tierVars, importVars, restVars>>

\* saveWeightsConfig(modal) up to the fetch: POST /api/weight-configs/medical
MedSaveWeightsConfig ==
    /\ IsMedical /\ modal = "open" /\ request = NoRequest
    /\ request' = [kind |-> "saveMedical", status |-> "pending", body |-> currentWeights]
    /\ UNCHANGED <<module, phase, currentWeights, presetSchemes, hasUnsavedChanges, modal>>
    /\ UNCHANGED notification
    /\ UNCHANGED <<storeVars, scoreVars, rankVars, tierVars, importVars, restVars>>

\* saveWeightsConfig(modal) after the fetch
MedSaveSettled(o, setAsDefault) ==
    /\ IsMedical /\ Pending("saveMedical")
    /\ IF o = "success"
       THEN /\ hasUnsavedChanges' = FALSE
            /\ modal' = "closed"
            /\ request' = IF setAsDefault
                          THEN [kind |-> "activate", status |-> "pending"]
                          ELSE NoRequest
       ELSE /\ request' = NoRequest
            /\ UNCHANGED <<hasUnsavedChanges, modal>>
    /\ UNCHANGED <<module, phase, currentWeights, presetSchemes>>
    /\ notification' = "other"
    /\ lastStored' = IF o = "success" THEN Stored(request.body) ELSE lastStored
    /\ UNCHANGED <<activeTab, recalculations, recommit, analysisVars, parseVars, chartVars>>
    /\ UNCHANGED <<storeVars, scoreVars, rankVars, tierVars, importVars>>

\* activateWeightConfig(id) returns whatever the response; recalculateMedicalScores() follows
MedActivateSettled(o) ==
    /\ IsMedical /\ Pending("activate")
    /\ request' = [kind |-> "recalculate", status |-> "pending"]
    /\ UNCHANGED <<module, phase, currentWeights, presetSchemes, hasUnsavedChanges, modal>>
    /\ notification' = "other"
    /\ UNCHANGED <<storeVars, scoreVars, rankVars, tierVars, importVars, restVars>>

\* recalculateMedicalScores() after the fetch: a notification either way
MedRecalculateSettled(o) ==
    /\ IsMedical /\ Pending("recalculate")
    /\ request' = NoRequest
    /\ UNCHANGED <<module, phase, currentWeights, presetSchemes, hasUnsavedChanges, modal>>
    /\ notification' = "other"
    /\ UNCHANGED <<storeVars, scoreVars, rankVars, tierVars, importVars, restVars>>

\* how the analyze request can end: as any request, or with an answer that
\* showAnalysisResults throws on
AnalysisOutcomes == Outcomes \cup {"render_throws"}

\* an analysis that starts whenever the sum is valid (the fault C29 rules out)
MayAnalyzeWhileBusy(valid, analyzing) == valid

\* analyzeWeightImpact() goes on to the request: neither of its two returns
\* is taken
MayAnalyze(valid, analyzing) == valid /\ ~analyzing

\* analyzeWeightImpact() up to the fetch
MedAnalyzeWeightImpact(roundsUp) ==
    /\ MedControlsLive
    /\ LET valid == validateWeightsForSaving(currentWeights, roundsUp)
       IN  IF MayAnalyze(valid, isAnalyzing)
           THEN /\ isAnalyzing' = TRUE
                /\ analysis' = analysis + 1
                /\ UNCHANGED notification
           ELSE /\ notification' = IF valid THEN "other" ELSE "weight_sum_error"
                /\ UNCHANGED <<isAnalyzing, analysis>>
    /\ UNCHANGED pageRest
    /\ UNCHANGED <<lastStored, activeTab, recalculations, recommit, parseVars, chartVars>>
    /\ UNCHANGED <<storeVars, scoreVars, rankVars, tierVars, importVars>>

\* analyzeWeightImpact() after the fetch: the results or the notification of
\* the catch branch, then the finally block
MedAnalysisSettled(o) ==
    /\ IsMedical
    /\ analysis > 0
    /\ analysis' = analysis - 1
    /\ isAnalyzing' = FALSE
    /\ notification' = IF o = "success" THEN notification ELSE "other"
    /\ UNCHANGED pageRest
    /\ UNCHANGED <<lastStored, activeTab, recalculations, recommit, parseVars, chartVars>>
    /\ UNCHANGED <<storeVars, scoreVars, rankVars, tierVars, importVars>>

(******************************** WeightsModule ****************************)
IsWeights == module = "WeightsModule"

WControlsLive == IsWeights /\ phase = "ready"

Weights(i, q, a, t) ==
    [influence_weight |-> i, quality_weight |-> q, activity_weight |-> a,
     title_weight_factor |-> t]

\* the object literal of loadWeights' catch branch and of resetWeights
DefaultWeights == Weights(40, 30, 30, 10)

\* configurations app.api.getWeights() can resolve with
ServerWeights == {Weights(30, 25, 25, 10), Weights(40, 30, 30, 10)}

\* app.api.getWeights() / updateWeights() / recalculateScores() reject on a failed request
ApiRejects(o) == o \in Failures

WPresetWeights(id) ==
    CASE id = "balanced"          -> Weights(35, 35, 30, 10)
      [] id = "influence-focused" -> Weights(50, 25, 25, 15)
      [] id = "quality-focused"   -> Weights(25, 50, 25, 10)
      [] id = "activity-focused"  -> Weights(25, 25, 50, 10)

WPresetIds == {"balanced", "influence-focused", "quality-focused", "activity-focused"}

\* weightMap of updateWeight: slider id -> key of currentWeights
weightMap ==
    ("influence-weight" :> "influence_weight") @@ ("quality-weight" :> "quality_weight")
    @@ ("activity-weight" :> "activity_weight") @@ ("title-weight" :> "title_weight_factor")

\* positions the range inputs can report: min 0, max 1 (0.3 for title-weight), step 0.01
SliderValues(key) ==
    IF key = "title_weight_factor" THEN {0, 30} ELSE {30, 31, 40}

WSum(w) == Add(Add(w.influence_weight, w.quality_weight), w.activity_weight)

\* saveWeights: Math.abs(sum - 1) > 0.01 rejects
WSumAccepted(w, roundsUp) == ~FloatExceeds(AbsDiff(WSum(w), 100), 1, roundsUp)

\* loadWeights(): await this.app.api.getWeights()
WFetchWeights ==
    /\ IsWeights /\ phase = "constructed" /\ request = NoRequest
    /\ request' = [kind |-> "getWeights", status |-> "pending"]
    /\ UNCHANGED <<module, phase, currentWeights, presetSchemes, hasUnsavedChanges, modal>>
    /\ UNCHANGED notification
    /\ UNCHANGED <<storeVars, scoreVars, rankVars, tierVars, importVars, restVars>>

\* the store answers the read of the active configuration; a successful answer
\* carries a payload
ActiveConfigAnswered(o, data) ==
    /\ (Pending("getActive") \/ Pending("getWeights"))
    /\ data \in (IF Pending("getActive") THEN ActiveConfigs ELSE ServerWeights)
    /\ request' = IF o = "success"
                  THEN [kind |-> request.kind, status |-> o, data |-> data]
                  ELSE [kind |-> request.kind, status |-> o]
    /\ UNCHANGED <<module, phase, currentWeights, presetSchemes, hasUnsavedChanges, modal>>
    /\ UNCHANGED notification
    /\ UNCHANGED <<storeVars, scoreVars, rankVars, tierVars, importVars, restVars>>

\* loadWeights(): the assignment, or the catch branch
WLoadWeights ==
    /\ IsWeights /\ Settled("getWeights")
    /\ currentWeights' = IF ApiRejects(request.status) THEN DefaultWeights
                         ELSE request.data
    /\ phase' = "loaded"
    /\ request' = NoRequest
    /\ UNCHANGED <<module, presetSchemes, hasUnsavedChanges, modal>>
    /\ notification' = IF ApiRejects(request.status) THEN "load_failed" ELSE notification
    /\ lastStored' = IF ApiRejects(request.status) THEN lastStored ELSE Stored(request.data)
    /\ UNCHANGED <<activeTab, recalculations, recommit, analysisVars, parseVars, chartVars>>
    /\ UNCHANGED <<storeVars, scoreVars, rankVars, tierVars, importVars>>

\* loadPresetSchemes(), then init() attaches the listeners and renders
WLoadPresetSchemes ==
    /\ IsWeights /\ phase = "loaded"
    /\ presetSchemes' = WPresetIds
    /\ phase' = "ready"
    /\ UNCHANGED <<module, currentWeights, hasUnsavedChanges, modal, request>>
    /\ UNCHANGED notification
    /\ UNCHANGED <<storeVars, scoreVars, rankVars, tierVars, importVars, restVars>>

WUpdateWeight(weightId, value) ==
    /\ WControlsLive
    /\ currentWeights' = [currentWeights EXCEPT ![weightMap[weightId]] = value]
    /\ hasUnsavedChanges' = TRUE
    /\ UNCHANGED <<module, phase, presetSchemes, modal, request>>
    /\ UNCHANGED notification
    /\ UNCHANGED <<storeVars, scoreVars, rankVars, tierVars, importVars, restVars>>

WApplyPresetScheme(schemeId) ==
    /\ WControlsLive
    /\ schemeId \in presetSchemes
    /\ currentWeights' = WPresetWeights(schemeId)
    /\ hasUnsavedChanges' = TRUE
    /\ UNCHANGED <<module, phase, presetSchemes, modal, request>>
    /\ notification' = "other"
    /\ UNCHANGED <<storeVars, scoreVars, rankVars, tierVars, importVars, restVars>>

\* resetWeights(): confirm() is always asked
WResetWeights(confirmed) ==
    /\ WControlsLive
    /\ IF ~confirmed
       THEN UNCHANGED <<currentWeights, hasUnsavedChanges>>
       ELSE /\ currentWeights' = DefaultWeights
            /\ hasUnsavedChanges' = FALSE
    /\ UNCHANGED <<module, phase, presetSchemes, modal, request>>
    /\ notification' = IF confirmed THEN "other" ELSE notification
    /\ UNCHANGED <<storeVars, scoreVars, rankVars, tierVars, importVars, restVars>>

\* saveWeights() up to the await: returns at once when the sum is rejected
WSaveWeights(roundsUp) ==
    /\ WControlsLive /\ request = NoRequest
    /\ request' = IF WSumAccepted(currentWeights, roundsUp)
                  THEN [kind |-> "updateWeights", status |-> "pending",
                        body |-> currentWeights]
                  ELSE request
    /\ UNCHANGED <<module, phase, currentWeights, presetSchemes, hasUnsavedChanges, modal>>
    /\ notification' = IF WSumAccepted(currentWeights, roundsUp)
                       THEN notification ELSE "weight_sum_error"
    /\ UNCHANGED <<storeVars, scoreVars, rankVars, tierVars, importVars, restVars>>

\* saveWeights() after the await; confirm() decides on the recalculation
WSaveSettled(o, recalculate) ==
    /\ IsWeights /\ Pending("updateWeights")
    /\ IF ApiRejects(o)
       THEN /\ request' = NoRequest
            /\ UNCHANGED hasUnsavedChanges
       ELSE /\ hasUnsavedChanges' = FALSE
            /\ request' = IF recalculate
                          THEN [kind |-> "recalculate", status |-> "pending"]
                          ELSE NoRequest
    /\ UNCHANGED <<module, phase, currentWeights, presetSchemes, modal>>
    /\ notification' = "other"
    /\ lastStored' = IF ApiRejects(o) THEN lastStored ELSE Stored(request.body)
    /\ UNCHANGED <<activeTab, recalculations, recommit, analysisVars, parseVars, chartVars>>
    /\ UNCHANGED <<storeVars, scoreVars, rankVars, tierVars, importVars>>

\* saveWeights(): the inner try/catch around recalculateScores()
WRecalculateSettled(o) ==
    /\ IsWeights /\ Pending("recalculate")
    /\ request' = NoRequest
    /\ UNCHANGED <<module, phase, currentWeights, presetSchemes, hasUnsavedChanges, modal>>
    /\ notification' = "other"
    /\ UNCHANGED <<storeVars, scoreVars, rankVars, tierVars, importVars, restVars>>

(***************************************************************************)
(* WeightsModule.calculateExampleScore                                     *)
(***************************************************************************)
\* titles: chief physician (zhuren yishi), associate chief physician (fu zhuren
\* yishi), attending physician (zhuzhi yishi), resident physician (zhuyuan
\* yishi), and any title the map does not hold
Titles == {"chief_physician", "associate_chief_physician", "attending_physician",
           "resident_physician", "other"}

\* titleMap[title] || 1.0, in tenths
getTitleMultiplier(title) ==
    CASE title = "chief_physician"           -> 15
      [] title = "associate_chief_physician" -> 12
      [] title = "attending_physician"       -> 10
      [] title = "resident_physician"        -> 8
      [] OTHER                               -> 10

\* a baseScore without the activity term (the fault C7 rules out)
BaseScoreNoActivity(ex, w) ==
    ex.influence * w.influence_weight + ex.quality * w.quality_weight

\* example.influence * influence_weight + example.quality * quality_weight
\* + example.activity * activity_weight, in hundredths of a point
baseScore(ex, w) ==
    ex.influence * w.influence_weight + ex.quality * w.quality_weight
    + ex.activity * w.activity_weight

\* baseScore * (1 + titleMultiplier * title_weight_factor), in 1/100000 of a point:
\* hundredths (weights) times thousandths (tenths times hundredths)
calculateExampleScore(ex, w) ==
    baseScore(ex, w) * (1000 + getTitleMultiplier(ex.title) * w.title_weight_factor)

\* one point of score in the unit of calculateExampleScore
Point == 100000

SubScores == {0, 60, 70, 80, 100}

Examples ==
    [influence : SubScores, quality : SubScores, activity : SubScores, title : Titles]

\* the values of currentWeights the scoring runs under: configurations the save
\* check accepts, and the 100-sum shape of DoctorAnalysisSystem.weights
ScoreConfigs ==
    {Weights(ws[1], ws[2], ws[3], t) :
        ws \in {<<40, 30, 30>>, <<35, 35, 30>>, <<4000, 3000, 3000>>},
        t \in {0, 10, 30}}

NoScore == [done |-> FALSE]

\* renderScoreExamples(): const score = this.calculateExampleScore(example)
CalculateExampleScore ==
    /\ IsWeights /\ example # Null /\ ~score.done
    /\ score' = [done |-> TRUE, value |-> calculateExampleScore(example, currentWeights)]
    /\ UNCHANGED <<example, storeVars, pageVars, rankVars, tierVars, importVars, restVars>>

(***************************************************************************)
(* DoctorAnalysisSystem.renderScoresTable                                  *)
(***************************************************************************)
MaxDoctors == 3

ScoreValues == {60, 70, 80}

\* the score records of the store: doctor i has weighted_total_score p[i]
Populations == UNION {[1..n -> ScoreValues] : n \in 0..MaxDoctors}

\* the orders in which GET /api/scores can list n records
Orders(n) == {f \in [1..n -> 1..n] : \A i, j \in 1..n : f[i] = f[j] => i = j}

RECURSIVE InsertDesc(_, _)
\* x goes behind every entry whose score is not below its own
InsertDesc(sorted, x) ==
    IF sorted = <<>> THEN <<x>>
    ELSE IF Head(sorted).weighted_total_score >= x.weighted_total_score
         THEN <<Head(sorted)>> \o InsertDesc(Tail(sorted), x)
         ELSE <<x>> \o sorted

RECURSIVE SortByScoreDesc(_)
\* [...this.scores].sort((a, b) => b.weighted_total_score - a.weighted_total_score):
\* Array.prototype.sort is stable
SortByScoreDesc(s) ==
    IF s = <<>> THEN <<>>
    ELSE InsertDesc(SortByScoreDesc(SubSeq(s, 1, Len(s) - 1)), s[Len(s)])

\* a rendering that skips the sort (the fault C10 rules out)
RenderUnsorted(s) ==
    [i \in 1..Len(s) |->
        [doctor_id |-> s[i].doctor_id,
         weighted_total_score |-> s[i].weighted_total_score,
         rank |-> i]]

\* the table rows: sortedScores.map((score, index) => ... #${index + 1})
renderScoresTable(s) ==
    LET sortedScores == SortByScoreDesc(s)
    IN  [i \in 1..Len(sortedScores) |->
            [doctor_id |-> sortedScores[i].doctor_id,
             weighted_total_score |-> sortedScores[i].weighted_total_score,
             rank |-> i]]

\* loadAnalysis(): this.scores = scoresData.data || []; this.renderScoresTable()
LoadAnalysis(order) ==
    /\ scores' = [i \in 1..Len(population) |->
                    [doctor_id |-> order[i],
                     weighted_total_score |-> population[order[i]]]]
    /\ rows' = renderScoresTable(scores')
    /\ prevRows' = rows
    /\ UNCHANGED <<population, storeVars, pageVars, scoreVars, tierVars, importVars, restVars>>


(***************************************************************************)
(* Score tiers: ScoringModule.filterByScore and                            *)
(* DoctorAnalysisApp.getScoreBadge.  Scores are in hundredths of a point.  *)
(***************************************************************************)
MaxTierDoctors == 2

\* total_score values on and next to the thresholds
TierScoreValues == {0, 5999, 6000, 7999, 8000, 10000}

\* what app.api.getDoctorRankings() can resolve with
Rankings ==
    UNION {[1..n -> TierScoreValues] : n \in 1..MaxTierDoctors}

\* the options of the score-filter select
ScoreRanges == {"", "high", "medium", "low"}

\* a medium filter that leaves the lower threshold out (the fault C11 rules out)
InScoreRangeAbove60(scoreRange, total_score) ==
    CASE scoreRange = "high"   -> total_score >= 8000
      [] scoreRange = "medium" -> total_score > 6000 /\ total_score < 8000
      [] scoreRange = "low"    -> total_score < 6000
      [] OTHER                 -> TRUE

\* the predicate of the filter() call in each case of the switch
InScoreRange(scoreRange, total_score) ==
    CASE scoreRange = "high"   -> total_score >= 8000
      [] scoreRange = "medium" -> total_score >= 6000 /\ total_score < 8000
      [] scoreRange = "low"    -> total_score < 6000
      [] OTHER                 -> TRUE

RECURSIVE FilterScores(_, _)
\* filteredScores.filter(doctor => ...): the entries that pass, in order
FilterScores(list, scoreRange) ==
    IF list = <<>> THEN <<>>
    ELSE LET rest == FilterScores(Tail(list), scoreRange)
         IN  IF InScoreRange(scoreRange, Head(list).total_score)
             THEN <<Head(list)>> \o rest ELSE rest

\* renderRankingCards() over the list renderFilteredRankings swapped in:
\* one card per entry, numbered index + 1
renderRankingCards(list) ==
    [i \in 1..Len(list) |->
        [id |-> list[i].id, total_score |-> list[i].total_score, rank_number |-> i]]

\* the class of the badge: score >= 80 high, score >= 60 medium, else low
getScoreBadge(s) ==
    IF s >= 8000 THEN "high"
    ELSE IF s >= 6000 THEN "medium"
    ELSE "low"

\* filterByScore(scoreRange): filter a copy of currentScores, render it,
\* leave currentScores as it was
FilterByScore(scoreRange) ==
    /\ currentScores # <<>>
    /\ scoreFilter' = scoreRange
    /\ rankingsGrid' = renderRankingCards(FilterScores(currentScores, scoreRange))
    /\ UNCHANGED <<currentScores, badges>>
    /\ UNCHANGED <<storeVars, pageVars, scoreVars, rankVars, importVars, restVars>>

\* getScoreBadge(score) for every entry of the current scores
RenderScoreBadges ==
    /\ currentScores # <<>>
    /\ badges' = [i \in 1..Len(currentScores) |-> getScoreBadge(currentScores[i].total_score)]
    /\ UNCHANGED <<currentScores, scoreFilter, rankingsGrid>>
    /\ UNCHANGED <<storeVars, pageVars, scoreVars, rankVars, importVars, restVars>>

(***************************************************************************)
(* The rankings tab of ScoringModule: loading, both filters, tab switches  *)
(* and the recalculate button.  A doctor's id is its place in the answer   *)
(* of the store.                                                           *)
(***************************************************************************)
MaxRankedDoctors == 2
MaxRecalculations == 2

\* the options of the recommendation-filter select
RecommendationOptions == {"", "zh:zhongdian toufang", "zh:shidu toufang", "zh:guancha toufang"}

\* what app.api.getDoctorRankings() can resolve with on this tab
RankedLists ==
    UNION {{[i \in 1..n |-> [id |-> i, total_score |-> sc[i], recommendation |-> rc[i]]] :
                sc \in [1..n -> {5900, 8000}],
                rc \in [1..n -> {"zh:zhongdian toufang", "zh:guancha toufang"}]} :
           n \in 1..MaxRankedDoctors}

Tabs == {"rankings", "comparison", "trends", "analysis"}

\* what renderContent() leaves in #rankings-grid: the cards of all current
\* scores on the rankings tab, nothing on the other tabs
renderContent(tab, list) ==
    IF tab = "rankings" THEN renderRankingCards(list) ELSE <<>>

\* init(): loadScores() then renderContent(); answer is what
\* getDoctorRankings resolved with, ok = FALSE when it rejected
ScoringInit(ok, answer) ==
    /\ Len(currentScores) = 0
    /\ request = NoRequest
    /\ currentScores' = IF ok THEN answer ELSE <<>>
    /\ notification' = IF ok THEN notification ELSE "load_failed"
    /\ rankingsGrid' = renderContent(activeTab, currentScores')
    /\ scoreFilter' = ""
    /\ UNCHANGED <<badges, pageRest, restVars>>
    /\ UNCHANGED <<storeVars, scoreVars, rankVars, importVars>>

\* switchTab(tab)
SwitchTab(tab) ==
    /\ activeTab' = tab
    /\ rankingsGrid' = renderContent(tab, currentScores)
    /\ scoreFilter' = ""
    /\ UNCHANGED <<currentScores, badges>>
    /\ UNCHANGED <<lastStored, recalculations, recommit, analysisVars, parseVars, chartVars>>
    /\ UNCHANGED <<storeVars, pageVars, scoreVars, rankVars, importVars>>

\* filterByScore(scoreRange) from the select of the rankings tab
RankingsFilterByScore(scoreRange) ==
    /\ activeTab = "rankings"
    /\ FilterByScore(scoreRange)

\* filterByRecommendation(recommendation): filter a copy of currentScores by
\* equality when an option is chosen, render it, leave currentScores as it was
FilterByRecommendation(recommendation) ==
    /\ activeTab = "rankings"
    /\ rankingsGrid' =
          renderRankingCards(
              IF recommendation # ""
              THEN SelectSeq(currentScores,
                             LAMBDA doctor : doctor.recommendation = recommendation)
              ELSE currentScores)
    /\ UNCHANGED <<currentScores, scoreFilter, badges>>
    /\ UNCHANGED <<storeVars, pageVars, scoreVars, rankVars, importVars, restVars>>

\* recalculateScores() up to its first await; confirmed is the answer to
\* confirm()
RecalculateScores(confirmed) ==
    /\ activeTab = "rankings"
    /\ request = NoRequest
    /\ recalculations < MaxRecalculations
    /\ IF confirmed
       THEN /\ request' = [kind |-> "recalculateScores", status |-> "pending"]
            /\ recalculations' = recalculations + 1
       ELSE UNCHANGED <<request, recalculations>>
    /\ UNCHANGED <<module, phase, currentWeights, presetSchemes, hasUnsavedChanges, modal,
                   notification>>
    /\ UNCHANGED <<lastStored, activeTab, recommit, analysisVars, parseVars, chartVars>>
    /\ UNCHANGED <<storeVars, scoreVars, rankVars, tierVars, importVars>>

\* recalculateScores() once the request settled: loadScores() and
\* renderContent() after a success, a notification after a failure
RecalculateScoresSettled(ok, loaded, answer) ==
    /\ Pending("recalculateScores")
    /\ request' = NoRequest
    /\ IF ok
       THEN /\ currentScores' = IF loaded THEN answer ELSE <<>>
            /\ rankingsGrid' = renderContent(activeTab, currentScores')
            /\ scoreFilter' = ""
            /\ notification' = IF loaded THEN "other" ELSE "load_failed"
       ELSE /\ notification' = "other"
            /\ UNCHANGED <<currentScores, rankingsGrid, scoreFilter>>
    /\ UNCHANGED <<module, phase, currentWeights, presetSchemes, hasUnsavedChanges, modal>>
    /\ UNCHANGED <<badges, restVars>>
    /\ UNCHANGED <<storeVars, scoreVars, rankVars, importVars>>

(***************************************************************************)
(* Score distribution: ReportsModule.renderScoreDistribution and           *)
(* DashboardModule.setupScoreDistributionChart.  Scores are in hundredths  *)
(* of a point.                                                             *)
(***************************************************************************)
MaxChartDoctors == 2

\* total_score values between 0 and 100: the ends, bucket bounds, and
\* fractional scores (20.5, 80.5)
ChartScores == {0, 2000, 2050, 2100, 8050, 10000}

\* what app.api.getDoctors() resolves with, and the list handed to the report
ChartDoctors ==
    UNION {[1..n -> [total_score : ChartScores]] : n \in 0..MaxChartDoctors}

\* the array ranges / scoreRanges of both functions
scoreRanges ==
    <<[min |-> 0,    max |-> 2000],
      [min |-> 2100, max |-> 4000],
      [min |-> 4100, max |-> 6000],
      [min |-> 6100, max |-> 8000],
      [min |-> 8100, max |-> 10000]>>

\* score >= range.min && score <= range.max
InRange(s, range) == s >= range.min /\ s <= range.max

\* renderScoreDistribution(doctors, scoreField): the count of each range
renderScoreDistribution(list, scoreField) ==
    [b \in 1..Len(scoreRanges) |->
        Cardinality({i \in 1..Len(list) :
                        InRange(OrElse(list[i][scoreField], 0), scoreRanges[b])})]

\* the forEach of setupScoreDistributionChart: a doctor counts in the first
\* range that holds the score
setupScoreDistributionChart(list) ==
    [b \in 1..Len(scoreRanges) |->
        Cardinality({i \in 1..Len(list) :
                        /\ InRange(OrElse(list[i].total_score, 0), scoreRanges[b])
                        /\ \A a \in 1..(b - 1) :
                              ~InRange(OrElse(list[i].total_score, 0), scoreRanges[a])})]

\* the report renders the distribution of total_score
RenderScoreDistribution ==
    /\ buckets.reports = <<>>
    /\ buckets' = [buckets EXCEPT !.reports = renderScoreDistribution(doctors, "total_score")]
    /\ UNCHANGED <<doctors, lastStored, activeTab, recalculations, recommit, analysisVars,
                   parseVars>>
    /\ UNCHANGED <<storeVars, pageVars, scoreVars, rankVars, tierVars, importVars>>

\* setupScoreDistributionChart() once getDoctors() settled; a rejection is
\* caught and logged
SetupScoreDistributionChart(ok) ==
    /\ buckets.dashboard = <<>>
    /\ buckets' = IF ok
                  THEN [buckets EXCEPT !.dashboard = setupScoreDistributionChart(doctors)]
                  ELSE buckets
    /\ UNCHANGED <<doctors, lastStored, activeTab, recalculations, recommit, analysisVars,
                   parseVars>>
    /\ UNCHANGED <<storeVars, pageVars, scoreVars, rankVars, tierVars, importVars>>

(***************************************************************************)
(* CSV import: ImportModule.  A file's text is given as its lines, a line  *)
(* as its cells (splitting a line into cells is parseCSVLine's work).      *)
(* Strings that are not ASCII in the source are written "zh:<pinyin>".     *)
(* Rates are in hundredths of a percent point.                             *)
(***************************************************************************)
MaxUploadRows == 3

\* String.prototype.trim, on the strings that occur in the uploads
Trim(s) ==
    CASE s = "  "     -> ""
      [] s = " 150% " -> "150%"
      [] s = " name " -> "name"
      [] s = "<feff>zh:xingming" -> "zh:xingming"
      [] OTHER        -> s

\* obj[key], '' standing for undefined as well (both are falsy where it is read)
Get(obj, key) ==
    IF \E i \in 1..Len(obj) : obj[i].key = key
    THEN obj[CHOOSE i \in 1..Len(obj) : obj[i].key = key].value
    ELSE ""

\* obj[key] = value: a new key goes last, a known key keeps its place
Put(obj, key, value) ==
    IF \E i \in 1..Len(obj) : obj[i].key = key
    THEN [i \in 1..Len(obj) |->
            IF obj[i].key = key THEN [key |-> key, value |-> value] ELSE obj[i]]
    ELSE Append(obj, [key |-> key, value |-> value])

\* line.trim() is empty: a line without a comma whose text is blank
IsBlankLine(line) == Len(line) = 1 /\ Trim(line[1]) = ""

RECURSIVE BuildRow(_, _, _, _)
\* headers.forEach((header, index) => row[header.trim()] = values[index] ? ... : '')
BuildRow(headers, values, index, row) ==
    IF index > Len(headers) THEN row
    ELSE BuildRow(headers, values, index + 1,
            Put(row, Trim(headers[index]),
                IF index <= Len(values) /\ values[index] # ""
                THEN Trim(values[index]) ELSE ""))

\* parseCSV(text): the row objects, or ok = FALSE when it throws (a text
\* without a non-blank line)
parseCSV(text) ==
    LET lines == SelectSeq(text, LAMBDA line : ~IsBlankLine(line))
    IN  IF Len(lines) = 0 THEN [ok |-> FALSE, data |-> <<>>]
        ELSE [ok   |-> TRUE,
              data |-> [i \in 1..(Len(lines) - 1) |->
                            BuildRow(lines[1], lines[i + 1], 1, <<>>)]]

\* the table fieldMap of getFieldMapping
fieldMap ==
    ("zh:xingming" :> "name") @@ ("zh:yisheng xingming" :> "name") @@ ("name" :> "name") @@
    ("zh:zhicheng" :> "title") @@ ("zh:yisheng zhicheng" :> "title") @@ ("title" :> "title") @@
    ("zh:yiyuan" :> "hospital") @@ ("zh:yiyuan mingcheng" :> "hospital") @@
    ("hospital" :> "hospital") @@
    ("zh:keshi" :> "department") @@ ("zh:keshi mingcheng" :> "department") @@
    ("department" :> "department") @@
    ("zh:fensi shu" :> "followers_count") @@ ("zh:fensi shuliang" :> "followers_count") @@
    ("followers" :> "followers_count") @@ ("followers_count" :> "followers_count") @@
    ("zh:wenzhang shu" :> "articles_count") @@ ("zh:wenzhang shuliang" :> "articles_count") @@
    ("articles" :> "articles_count") @@ ("articles_count" :> "articles_count") @@
    ("zh:pingjun yuedu liang" :> "avg_views") @@ ("zh:yuedu liang" :> "avg_views") @@
    ("views" :> "avg_views") @@ ("avg_views" :> "avg_views") @@
    ("zh:pingjun dianzan shu" :> "avg_likes") @@ ("zh:dianzan shu" :> "avg_likes") @@
    ("likes" :> "avg_likes") @@ ("avg_likes" :> "avg_likes") @@
    ("zh:yue fawen liang" :> "monthly_articles") @@ ("zh:yue fawen shu" :> "monthly_articles") @@
    ("monthly_articles" :> "monthly_articles") @@
    ("zh:huifu lv" :> "response_rate") @@ ("zh:xiangying lv" :> "response_rate") @@
    ("response_rate" :> "response_rate")

RECURSIVE MapHeaders(_, _, _)
\* headers.forEach(header => { if (fieldMap[header.trim()]) mapping[...] = ... })
MapHeaders(firstRow, index, mapping) ==
    IF index > Len(firstRow) THEN mapping
    ELSE LET normalizedHeader == Trim(firstRow[index].key)
         IN  MapHeaders(firstRow, index + 1,
                IF normalizedHeader \in DOMAIN fieldMap
                THEN Put(mapping, normalizedHeader, fieldMap[normalizedHeader])
                ELSE mapping)

\* getFieldMapping(firstRow): csv column -> canonical field, in header order
getFieldMapping(firstRow) == MapHeaders(firstRow, 1, <<>>)

requiredFields == {"name", "title", "hospital", "department"}

countFields ==
    {"followers_count", "articles_count", "avg_views", "avg_likes", "monthly_articles"}

\* a list of standard titles without the associate chief physician (the
\* fault C23 rules out)
validTitlesWithoutAssociate ==
    {"zh:zhuren yishi", "zh:zhuzhi yishi", "zh:zhuyuan yishi"}

validTitles ==
    {"zh:zhuren yishi", "zh:fuzhuren yishi", "zh:zhuzhi yishi", "zh:zhuyuan yishi"}

\* !value || value.trim() === ''
IsBlank(value) == value = "" \/ Trim(value) = ""

\* getDefaultValue(field)
getDefaultValue(field) ==
    IF field \in countFields \cup {"response_rate"} THEN 0 ELSE ""

\* parseInt(trimmedValue.replace(/[,]/g, '')) on the strings that occur
ParseCount(s) ==
    CASE s = "1,200" -> 1200
      [] s = "-3"    -> -3
      [] s = "50000" -> 50000
      [] s = "30000" -> 30000
      [] s = "20000" -> 20000
      [] s = "2000"  -> 2000
      [] s = "1500"  -> 1500
      [] s = "1000"  -> 1000
      [] s = "150"   -> 150
      [] s = "120"   -> 120
      [] s = "100"   -> 100
      [] s = "80"    -> 80
      [] s = "60"    -> 60
      [] s = "8"     -> 8
      [] s = "6"     -> 6
      [] s = "4"     -> 4
      [] OTHER       -> NaN

\* parseFloat(trimmedValue.replace('%', '')) on the strings that occur
ParseRate(s) ==
    CASE s = "85.5" -> 8550
      [] s = "78.2" -> 7820
      [] s = "72.8" -> 7280
      [] s = "150%" -> 15000
      [] s = "-5"   -> -500
      [] OTHER      -> NaN

\* normalizeFieldValue(field, value): the value returned, or ok = FALSE when
\* it throws
normalizeFieldValue(field, value) ==
    IF IsBlank(value) THEN [ok |-> TRUE, value |-> getDefaultValue(field)]
    ELSE LET trimmedValue == Trim(value)
         IN  CASE field \in countFields ->
                    LET intValue == ParseCount(trimmedValue)
                    IN  IF IsNaN(intValue) \/ intValue < 0
                        THEN [ok |-> FALSE, value |-> 0]
                        ELSE [ok |-> TRUE, value |-> intValue]
               [] field = "response_rate" ->
                    LET floatValue == ParseRate(trimmedValue)
                    IN  IF IsNaN(floatValue)
                        THEN [ok |-> FALSE, value |-> 0]
                        ELSE [ok |-> TRUE, value |-> floatValue]
               [] OTHER -> [ok |-> TRUE, value |-> trimmedValue]

\* a range check that stores the value as it came (the fault C13 rules out)
KeepRate(rate) == rate

\* Math.max(0, Math.min(100, normalizedData.response_rate))
ClampRate(rate) ==
    IF rate > 10000 THEN 10000 ELSE IF rate < 0 THEN 0 ELSE rate

RECURSIVE ValidateFields(_, _, _, _)
\* the loop of validateRow over Object.entries(fieldMapping)
ValidateFields(row, fieldMapping, k, acc) ==
    IF k > Len(fieldMapping) THEN acc
    ELSE LET csvField == fieldMapping[k].key
             dbField  == fieldMapping[k].value
             value    == Get(row, csvField)
             n        == normalizeFieldValue(dbField, value)
         IN  ValidateFields(row, fieldMapping, k + 1,
                IF dbField \in requiredFields /\ IsBlank(value)
                THEN [acc EXCEPT !.errors =
                        Append(@, [field |-> csvField, kind |-> "required"])]
                ELSE IF n.ok
                THEN [acc EXCEPT !.normalizedData = (dbField :> n.value) @@ @]
                ELSE IF dbField \in requiredFields
                THEN [acc EXCEPT !.errors =
                        Append(@, [field |-> csvField, kind |-> "format"])]
                ELSE [acc EXCEPT
                        !.warnings = Append(@, [field |-> csvField, kind |-> "format"]),
                        !.normalizedData = (dbField :> getDefaultValue(dbField)) @@ @])

\* validateRow(row, fieldMapping, rowIndex); the row number of the messages
\* is the entry's rowIndex
validateRow(row, fieldMapping) ==
    LET looped == ValidateFields(row, fieldMapping, 1,
                    [errors |-> <<>>, warnings |-> <<>>, normalizedData |-> <<>>])
        nd     == looped.normalizedData
        titled == IF "title" \in DOMAIN nd /\ nd["title"] # ""
                     /\ nd["title"] \notin validTitles
                  THEN Append(looped.warnings, [field |-> "title", kind |-> "title"])
                  ELSE looped.warnings
        outOfRange == /\ "response_rate" \in DOMAIN nd
                      /\ nd["response_rate"] # 0
                      /\ (nd["response_rate"] < 0 \/ nd["response_rate"] > 10000)
    IN  [isValid  |-> Len(looped.errors) = 0,
         errors   |-> looped.errors,
         warnings |-> IF outOfRange
                      THEN Append(titled, [field |-> "response_rate", kind |-> "range"])
                      ELSE titled,
         normalizedData |->
            IF outOfRange
            THEN ("response_rate" :> ClampRate(nd["response_rate"])) @@ nd
            ELSE nd]

\* a numbering of the rows from 0 (the fault C16 rules out)
RowPositionFromZero(index) == index - 1

\* index + 1 of validateData, index counted from 0 there and from 1 here
RowPosition(index) == index

RECURSIVE ValidateRows(_, _, _, _)
\* data.forEach((row, index) => ...) of validateData
ValidateRows(data, fieldMapping, index, results) ==
    IF index > Len(data) THEN results
    ELSE LET validation == validateRow(data[index], fieldMapping)
         IN  ValidateRows(data, fieldMapping, index + 1,
                IF validation.isValid
                THEN [results EXCEPT
                        !.valid = Append(@, [rowIndex |-> RowPosition(index),
                                            data     |-> validation.normalizedData,
                                            warnings |-> validation.warnings]),
                        !.summary.validCount = @ + 1,
                        !.summary.warningCount =
                            IF Len(validation.warnings) > 0 THEN @ + 1 ELSE @]
                ELSE [results EXCEPT
                        !.invalid = Append(@, [rowIndex |-> RowPosition(index),
                                              data     |-> data[index],
                                              errors   |-> validation.errors]),
                        !.summary.invalidCount = @ + 1])

\* validateData(data)
validateData(data) ==
    ValidateRows(data,
                 getFieldMapping(IF Len(data) > 0 THEN data[1] ELSE <<>>),
                 1,
                 [valid |-> <<>>, invalid |-> <<>>, warnings |-> <<>>,
                  summary |-> [total |-> Len(data), validCount |-> 0,
                               invalidCount |-> 0, warningCount |-> 0]])

(***************************************************************************)
(* CSV text at the level of characters: parseCSVLine, parseCSV over raw    *)
(* lines, and the template of downloadTemplate.  A line is the sequence of *)
(* its characters; a run of ordinary characters (no comma, quote or line   *)
(* break) is written as one element, which the scan appends as it appends  *)
(* the run's characters one by one.  text.split('\n') is taken as done.    *)
(***************************************************************************)
MaxFields == 2
MaxFieldLen == 1

Quote == "\""
Comma == ","

RECURSIVE ScanLineSplittingInQuotes(_, _, _, _, _)
\* a scan that splits on every comma (the fault C24 rules out)
ScanLineSplittingInQuotes(line, i, result, current, inQuotes) ==
    IF i > Len(line) THEN Append(result, current)
    ELSE LET char     == line[i]
             nextChar == IF i < Len(line) THEN line[i + 1] ELSE ""
         IN  IF char = Quote /\ inQuotes /\ nextChar = Quote
             THEN ScanLineSplittingInQuotes(line, i + 2, result, current \o Quote, inQuotes)
             ELSE IF char = Quote
             THEN ScanLineSplittingInQuotes(line, i + 1, result, current, ~inQuotes)
             ELSE IF char = Comma
             THEN ScanLineSplittingInQuotes(line, i + 1, Append(result, current), "",
                                            inQuotes)
             ELSE ScanLineSplittingInQuotes(line, i + 1, result, current \o char, inQuotes)

RECURSIVE ScanLine(_, _, _, _, _)
\* the for loop of parseCSVLine from index i on, and the final push
ScanLine(line, i, result, current, inQuotes) ==
    IF i > Len(line) THEN Append(result, current)
    ELSE LET char     == line[i]
             nextChar == IF i < Len(line) THEN line[i + 1] ELSE ""
         IN  IF char = Quote /\ inQuotes /\ nextChar = Quote
             THEN ScanLine(line, i + 2, result, current \o Quote, inQuotes)
             ELSE IF char = Quote
             THEN ScanLine(line, i + 1, result, current, ~inQuotes)
             ELSE IF char = Comma /\ ~inQuotes
             THEN ScanLine(line, i + 1, Append(result, current), "", inQuotes)
             ELSE ScanLine(line, i + 1, result, current \o char, inQuotes)

\* parseCSVLine(line)
parseCSVLine(line) == ScanLine(line, 1, <<>>, "", FALSE)

\* line.trim() is empty, for a raw line
IsBlankText(line) == \A i \in 1..Len(line) : Trim(line[i]) = ""

\* parseCSV(text) over raw lines: the row objects, or ok = FALSE when it throws
parseCSVText(lines) ==
    LET kept == SelectSeq(lines, LAMBDA line : ~IsBlankText(line))
    IN  IF Len(kept) = 0 THEN [ok |-> FALSE, data |-> <<>>]
        ELSE [ok   |-> TRUE,
              data |-> [i \in 1..(Len(kept) - 1) |->
                            BuildRow(parseCSVLine(kept[1]), parseCSVLine(kept[i + 1]),
                                     1, <<>>)]]

\* a cell as the writer of a CSV line means it: its characters, and whether
\* it is written between quotes
Contents == UNION {[1..n -> {"a", Comma, Quote}] : n \in 0..MaxFieldLen}

Cells ==
    {cell \in [quoted : BOOLEAN, content : Contents] :
        cell.quoted \/ \A i \in 1..Len(cell.content) : cell.content[i] = "a"}

Plain(s) == [quoted |-> FALSE, content |-> <<s>>]

RECURSIVE Doubled(_)
\* the content of a quoted cell as written: every quote doubled
Doubled(content) ==
    IF content = <<>> THEN <<>>
    ELSE (IF Head(content) = Quote THEN <<Quote, Quote>> ELSE <<Head(content)>>)
            \o Doubled(Tail(content))

WriteCell(cell) ==
    IF cell.quoted THEN <<Quote>> \o Doubled(cell.content) \o <<Quote>> ELSE cell.content

RECURSIVE WriteLine(_)
\* row.join(',') over the written cells
WriteLine(cells) ==
    IF Len(cells) = 0 THEN <<>>
    ELSE IF Len(cells) = 1 THEN WriteCell(cells[1])
    ELSE WriteCell(Head(cells)) \o <<Comma>> \o WriteLine(Tail(cells))

RECURSIVE TextOf(_)
\* the characters of a cell as one string
TextOf(content) ==
    IF content = <<>> THEN "" ELSE Head(content) \o TextOf(Tail(content))

\* a CSV text with the cells it was written from
Written(cellRows) ==
    [cells |-> cellRows, lines |-> [i \in 1..Len(cellRows) |-> WriteLine(cellRows[i])]]

\* single lines of up to MaxFields cells
QuotedLines ==
    UNION {{Written(<<row>>) : row \in [1..n -> Cells]} : n \in 1..MaxFields}

\* header spellings: a synonym of the table, its case variants, a padded
\* one, and a header without synonym
HeaderVariants == {"name", "Name", "NAME", " name ", "nickname"}

\* String.prototype.toLowerCase on the header spellings
LowerCase(s) ==
    CASE s = "Name" -> "name"
      [] s = "NAME" -> "name"
      [] OTHER      -> s

\* texts of a header line of two spellings and one data line
HeaderTexts ==
    {Written(<< <<Plain(h1), Plain(h2)>>, <<Plain("Li Wei"), Plain("Wang Fang")>> >>) :
        h1 \in HeaderVariants, h2 \in HeaderVariants}

\* texts without a non-blank line
BlankTexts ==
    {[cells |-> <<>>, lines |-> <<>>],
     [cells |-> <<>>, lines |-> << <<"  ">> >>],
     [cells |-> <<>>, lines |-> << <<"  ">>, <<>> >>]}

\* no text written or read yet
NoText == [none |-> TRUE]

\* headers and sampleData of downloadTemplate
templateHeaders ==
    <<"zh:xingming", "zh:zhicheng", "zh:yiyuan", "zh:keshi", "zh:fensi shu",
      "zh:wenzhang shu", "zh:pingjun yuedu liang", "zh:pingjun dianzan shu",
      "zh:yue fawen liang", "zh:huifu lv">>

sampleData ==
    << <<"zh:Zhang yisheng", "zh:zhuren yishi", "zh:Beijing Xiehe yiyuan", "zh:xinnei ke",
         "50000", "120", "2000", "150", "8", "85.5">>,
       <<"zh:Li yisheng", "zh:fuzhuren yishi", "zh:Shanghai Huashan yiyuan",
         "zh:shenjing neike", "30000", "80", "1500", "100", "6", "78.2">>,
       <<"zh:Wang yisheng", "zh:zhuzhi yishi", "zh:Guangzhou Zhongshan yiyuan",
         "zh:xiaohua neike", "20000", "60", "1000", "80", "4", "72.8">> >>

\* the text of the file downloadTemplate() offers, as a reader gets it:
\* [headers, ...sampleData].map(row => row.join(',')).join('\n') after the
\* byte order mark, which a reader keeps (bom) or strips
downloadTemplate(bom) ==
    LET table == <<templateHeaders>> \o sampleData
        text  == Written([i \in 1..Len(table) |->
                            [j \in 1..Len(table[i]) |-> Plain(table[i][j])]])
    IN  IF bom
        THEN [text EXCEPT !.lines[1] = <<"<feff>">> \o @]
        ELSE text

\* downloadTemplate(), the file then read back
DownloadTemplate(bom) ==
    /\ csvText = NoText
    /\ csvText' = downloadTemplate(bom)
    /\ csvParsed' = Null
    /\ UNCHANGED <<lastStored, activeTab, recalculations, recommit, analysisVars, chartVars>>
    /\ UNCHANGED <<storeVars, pageVars, scoreVars, rankVars, tierVars, importVars>>

\* parseCSVLine(line) on a text of one line
ParseCSVLine ==
    /\ csvText # NoText
    /\ csvParsed = Null
    /\ Len(csvText.lines) = 1
    /\ csvParsed' = [step |-> "line", values |-> parseCSVLine(csvText.lines[1])]
    /\ UNCHANGED <<csvText, lastStored, activeTab, recalculations, recommit, analysisVars,
                   chartVars>>
    /\ UNCHANGED <<storeVars, pageVars, scoreVars, rankVars, tierVars, importVars>>

\* parseCSV(text)
ParseCSV ==
    /\ csvText # NoText
    /\ csvParsed = Null
    /\ csvParsed' = [step |-> "parsed"] @@ parseCSVText(csvText.lines)
    /\ UNCHANGED <<csvText, lastStored, activeTab, recalculations, recommit, analysisVars,
                   chartVars>>
    /\ UNCHANGED <<storeVars, pageVars, scoreVars, rankVars, tierVars, importVars>>

\* validateData(importData) on what parseCSV returned, with the mapping
\* getFieldMapping(data[0] || {}) it works with
ValidateData ==
    /\ csvParsed # Null
    /\ csvParsed.step = "parsed"
    /\ csvParsed.ok
    /\ csvParsed' = [step    |-> "validated",
                     data    |-> csvParsed.data,
                     mapping |-> getFieldMapping(IF Len(csvParsed.data) > 0
                                                 THEN csvParsed.data[1] ELSE <<>>),
                     results |-> validateData(csvParsed.data)]
    /\ UNCHANGED <<csvText, lastStored, activeTab, recalculations, recommit, analysisVars,
                   chartVars>>
    /\ UNCHANGED <<storeVars, pageVars, scoreVars, rankVars, tierVars, importVars>>

(***************************************************************************)
(* The import pipeline.  Assumptions of the model: one file read and one   *)
(* performImport call are under way at a time; results.success and         *)
(* results.failed are held as sets (the order of settlement is left out);  *)
(* an undefined field reads as null.  The field stale of a read or a       *)
(* commit is no field of the program: it records that restartImport ran    *)
(* while the call was under way.                                           *)
(***************************************************************************)
batchSize == 10

MaxBatchedRows == 12

FullHeader == <<"name", "title", "hospital", "department", "response_rate", "followers">>

\* a header row without a column for the name
NoNameHeader == <<"title", "hospital", "department", "response_rate", "followers">>

Headers == {FullHeader, NoNameHeader}

RowKinds == {"good", "noName", "blankName", "rate150", "rateNeg", "rateBad"}

\* the text of a cell of a row of the kind
Cell(kind, column) ==
    CASE column = "name" ->
            IF kind = "noName" THEN "" ELSE IF kind = "blankName" THEN "  " ELSE "Li Wei"
      [] column = "title"      -> "zh:zhuren yishi"
      [] column = "hospital"   -> "Union Hospital"
      [] column = "department" -> "Cardiology"
      [] column = "response_rate" ->
            CASE kind = "rate150" -> " 150% "
              [] kind = "rateNeg" -> "-5"
              [] kind = "rateBad" -> "abc"
              [] OTHER            -> "85.5"
      [] column = "followers"  -> "1,200"
      [] OTHER                 -> ""

\* the lines of a CSV text: the header, then one line per row
CsvText(header, kinds) ==
    <<header>> \o [i \in 1..Len(kinds) |->
                        [c \in 1..Len(header) |-> Cell(kinds[i], header[c])]]

CsvFile(name, text) ==
    [name |-> name, size |-> 1024, readable |-> TRUE, text |-> text]

GoodRows(n) == [i \in 1..n |-> "good"]

\* files handleFileSelect turns down or fails on, and one with an upper-case name
OddFiles ==
    { CsvFile("doctors.txt", CsvText(FullHeader, GoodRows(1))),
      [CsvFile("doctors.csv", CsvText(FullHeader, GoodRows(1)))
            EXCEPT !.size = 10 * 1024 * 1024 + 1],
      [CsvFile("doctors.csv", CsvText(FullHeader, GoodRows(1)))
            EXCEPT !.readable = FALSE],
      CsvFile("doctors.csv", <<>>),
      CsvFile("doctors.csv", << <<"">>, <<"  ">> >>),
      CsvFile("DOCTORS.CSV", CsvText(FullHeader, GoodRows(1))) }

\* the files a user can pick
Files ==
    OddFiles \cup
    { CsvFile("doctors.csv", CsvText(header, kinds)) :
        header \in Headers,
        kinds \in UNION {[1..n -> RowKinds] : n \in 0..MaxUploadRows} }

\* file.name.toLowerCase().endsWith('.csv'), on the names that occur
EndsWithCsv(name) == name \in {"doctors.csv", "DOCTORS.CSV"}

Min(a, b) == IF a < b THEN a ELSE b

\* every record sent at once (the fault C18 rules out)
OneBatch(valid) == <<valid>>

\* batches.push(valid.slice(i, i + batchSize)) for i = 0, batchSize, ...
Batches(valid) ==
    [b \in 1..((Len(valid) + batchSize - 1) \div batchSize) |->
        SubSeq(valid, (b - 1) * batchSize + 1, Min(b * batchSize, Len(valid)))]

\* batch.map(async item => ...): createDoctor is called for every item of
\* batch k before the first await
StartBatch(c, k) ==
    LET started == {c.batches[k][j].rowIndex : j \in 1..Len(c.batches[k])}
    IN  [c EXCEPT !.k = k,
                  !.pending = started,
                  !.attempts = [r \in DOMAIN @ |-> IF r \in started THEN @[r] + 1 ELSE @[r]]]

\* performImport() up to its first await
StartImport(valid) ==
    StartBatch([status   |-> "running",
                stale    |-> FALSE,
                batches  |-> Batches(valid),
                k        |-> 0,
                pending  |-> {},
                attempts |-> [r \in {valid[i].rowIndex : i \in 1..Len(valid)} |-> 0],
                results  |-> [success |-> {}, failed |-> {},
                              summary |-> [total |-> Len(valid), successCount |-> 0,
                                           failedCount |-> 0]]],
               1)

\* a callback that forgets the failed record (the fault C17 rules out)
AfterCreateDoctorLosingFailures(c, item, ok) ==
    IF ok
    THEN [c EXCEPT !.pending = @ \ {item.rowIndex},
                   !.results.success = @ \cup {[rowIndex |-> item.rowIndex,
                                                name |-> IF "name" \in DOMAIN item.data THEN item.data["name"] ELSE ""]},
                   !.results.summary.successCount = @ + 1]
    ELSE [c EXCEPT !.pending = @ \ {item.rowIndex}]

\* the rest of the callback of an item once createDoctor(item.data) settled
AfterCreateDoctor(c, item, ok) ==
    LET name == IF "name" \in DOMAIN item.data THEN item.data["name"] ELSE ""
    IN  IF ok
        THEN [c EXCEPT !.pending = @ \ {item.rowIndex},
                       !.results.success = @ \cup {[rowIndex |-> item.rowIndex,
                                                    name |-> name]},
                       !.results.summary.successCount = @ + 1]
        ELSE [c EXCEPT !.pending = @ \ {item.rowIndex},
                       !.results.failed = @ \cup {[rowIndex |-> item.rowIndex,
                                                   name |-> name,
                                                   error |-> "store_error"]},
                       !.results.summary.failedCount = @ + 1]

\* handleFileSelect(file) up to the await of readFileAsText
HandleFileSelect(file) ==
    /\ file \in disk
    /\ importStep = 1
    /\ reading = Idle
    /\ IF ~EndsWithCsv(file.name) \/ file.size > 10 * 1024 * 1024
       THEN /\ notification' = "other"
            /\ UNCHANGED reading
       ELSE /\ reading' = [status |-> "reading", stale |-> FALSE, file |-> file]
            /\ UNCHANGED notification
    /\ UNCHANGED <<disk, importData, validationResults, importResults, importStep,
                   commit, uncaught>>
    /\ UNCHANGED <<storeVars, pageRest, scoreVars, rankVars, tierVars, restVars>>

\* handleFileSelect(file) once the FileReader has answered: parse, validate,
\* go to step 2; a failed read or an empty text is notified
ReadSettled ==
    /\ reading # Idle
    /\ LET parsed == parseCSV(reading.file.text)
       IN  IF ~reading.file.readable \/ ~parsed.ok
           THEN /\ notification' = "file_failed"
                /\ UNCHANGED <<importData, validationResults, importStep>>
           ELSE /\ importData' = parsed.data
                /\ validationResults' = validateData(parsed.data)
                /\ importStep' = 2
                /\ UNCHANGED notification
    /\ reading' = Idle
    /\ UNCHANGED <<disk, importResults, commit, uncaught>>
    /\ UNCHANGED <<storeVars, pageRest, scoreVars, rankVars, tierVars, restVars>>

\* confirmImport() up to the await in performImport; confirmed is the answer
\* to confirm().  With warningCount > 0 the statement confirmMessage += ...
\* assigns to a const: a TypeError leaves the handler before confirm()
ConfirmImport(confirmed) ==
    /\ importStep = 2
    /\ validationResults # Null
    /\ commit.status # "running"
    /\ IF validationResults.summary.validCount = 0
       THEN /\ notification' = "other"
            /\ uncaught' = "none"
            /\ UNCHANGED commit
       ELSE IF validationResults.summary.warningCount > 0
       THEN /\ uncaught' = "TypeError"
            /\ UNCHANGED <<notification, commit>>
       ELSE IF ~confirmed
       THEN /\ uncaught' = "none"
            /\ UNCHANGED <<notification, commit>>
       ELSE /\ commit' = StartImport(validationResults.valid)
            /\ uncaught' = "none"
            /\ UNCHANGED notification
    /\ UNCHANGED <<disk, importData, validationResults, importResults, importStep, reading>>
    /\ UNCHANGED <<storeVars, pageRest, scoreVars, rankVars, tierVars, restVars>>

\* createDoctor(item.data) of the record of row rowIndex settles: its callback
\* runs; after the last one of a batch Promise.all resolves and the next
\* batch starts, or performImport returns and confirmImport goes to step 3
SettleCreateDoctor(rowIndex, ok) ==
    /\ commit.status = "running"
    /\ rowIndex \in commit.pending
    /\ LET batch == commit.batches[commit.k]
           item  == batch[CHOOSE j \in 1..Len(batch) : batch[j].rowIndex = rowIndex]
           c     == AfterCreateDoctor(commit, item, ok)
       IN  IF c.pending # {}
           THEN /\ commit' = c
                /\ UNCHANGED <<importStep, importResults>>
           ELSE IF c.k < Len(c.batches)
           THEN /\ commit' = StartBatch(c, c.k + 1)
                /\ UNCHANGED <<importStep, importResults>>
           ELSE /\ commit' = [c EXCEPT !.status = "done"]
                /\ importStep' = 3
                /\ importResults' = c.results
    /\ UNCHANGED <<disk, importData, validationResults, reading, uncaught>>
    /\ UNCHANGED <<storeVars, pageVars, scoreVars, rankVars, tierVars, restVars>>

\* confirmImport() called once more (a second click on the confirm button
\* of the preview, which stays enabled, or importModule.confirmImport()) while
\* the first call's commit is under way or after it has returned: the same
\* code, its performImport call held in recommit
ConfirmImportAgain(confirmed) ==
    /\ validationResults # Null
    /\ commit.status \in {"running", "done"}
    /\ recommit = Idle
    /\ IF validationResults.summary.validCount = 0
       THEN /\ notification' = "other"
            /\ uncaught' = "none"
            /\ UNCHANGED recommit
       ELSE IF validationResults.summary.warningCount > 0
       THEN /\ uncaught' = "TypeError"
            /\ UNCHANGED <<notification, recommit>>
       ELSE IF ~confirmed
       THEN /\ uncaught' = "none"
            /\ UNCHANGED <<notification, recommit>>
       ELSE /\ recommit' = StartImport(validationResults.valid)
            /\ uncaught' = "none"
            /\ UNCHANGED notification
    /\ UNCHANGED <<disk, importData, validationResults, importResults, importStep, reading,
                   commit>>
    /\ UNCHANGED <<lastStored, activeTab, recalculations, analysisVars, parseVars, chartVars>>
    /\ UNCHANGED <<storeVars, pageRest, scoreVars, rankVars, tierVars>>

\* createDoctor(item.data) of the second call settles, as in SettleCreateDoctor
SettleCreateDoctorAgain(rowIndex, ok) ==
    /\ recommit.status = "running"
    /\ rowIndex \in recommit.pending
    /\ LET batch == recommit.batches[recommit.k]
           item  == batch[CHOOSE j \in 1..Len(batch) : batch[j].rowIndex = rowIndex]
           c     == AfterCreateDoctor(recommit, item, ok)
       IN  IF c.pending # {}
           THEN /\ recommit' = c
                /\ UNCHANGED <<importStep, importResults>>
           ELSE IF c.k < Len(c.batches)
           THEN /\ recommit' = StartBatch(c, c.k + 1)
                /\ UNCHANGED <<importStep, importResults>>
           ELSE /\ recommit' = [c EXCEPT !.status = "done"]
                /\ importStep' = 3
                /\ importResults' = c.results
    /\ UNCHANGED <<disk, importData, validationResults, reading, commit, uncaught>>
    /\ UNCHANGED <<lastStored, activeTab, recalculations, analysisVars, parseVars, chartVars>>
    /\ UNCHANGED <<storeVars, pageVars, scoreVars, rankVars, tierVars>>

\* restartImport(); a read or a commit under way goes on
RestartImport ==
    /\ importData' = <<>>
    /\ validationResults' = Null
    /\ importResults' = Null
    /\ importStep' = 1
    /\ reading' = IF reading = Idle THEN Idle ELSE [reading EXCEPT !.stale = TRUE]
    /\ commit' = IF commit.status = "running" THEN [commit EXCEPT !.stale = TRUE] ELSE Idle
    /\ UNCHANGED <<disk, uncaught>>
    /\ UNCHANGED <<storeVars, pageVars, scoreVars, rankVars, tierVars, restVars>>

(***************************************************************************)
(* Specifications                                                          *)
(***************************************************************************)
\* the store alone, seeded
InitStore ==
    /\ configs = SeededConfigs /\ seq = 4
    /\ module = "none" /\ phase = "constructed" /\ currentWeights = Null
    /\ presetSchemes = {} /\ hasUnsavedChanges = FALSE /\ modal = "closed"
    /\ request = NoRequest /\ notification = "none"
    /\ example = Null /\ score = NoScore
    /\ population = <<>> /\ scores = <<>> /\ rows = <<>> /\ prevRows = <<>>
    /\ currentScores = <<>> /\ scoreFilter = "" /\ rankingsGrid = <<>> /\ badges = <<>>
    /\ disk = {} /\ importData = <<>> /\ validationResults = Null
    /\ importResults = Null /\ importStep = 1 /\ reading = Idle /\ commit = Idle
    /\ uncaught = "none"
    /\ lastStored = Null /\ activeTab = "rankings" /\ recalculations = 0 /\ recommit = Idle
    /\ isAnalyzing = FALSE /\ analysis = 0
    /\ csvText = NoText /\ csvParsed = Null
    /\ doctors = <<>> /\ buckets = [reports |-> <<>>, dashboard |-> <<>>]

NextStore ==
    \/ \E d \in {0, 1} : InsertConfig(d)
    \/ \E id \in RowIds, d \in {0, 1} : UpdateIsDefault(id, d)
    \/ \E id \in RowIds : DeleteConfig(id)

SpecStore == InitStore /\ [][NextStore]_vars

\* one weights page, driven by one of the two modules, as constructed
InitPage ==
    /\ configs = SeededConfigs /\ seq = 4
    /\ module \in {"MedicalWeightsModule", "WeightsModule"}
    /\ phase = "constructed" /\ currentWeights = Null
    /\ presetSchemes = {} /\ hasUnsavedChanges = FALSE /\ modal = "closed"
    /\ request = NoRequest /\ notification = "none"
    /\ example = Null /\ score = NoScore
    /\ population = <<>> /\ scores = <<>> /\ rows = <<>> /\ prevRows = <<>>
    /\ currentScores = <<>> /\ scoreFilter = "" /\ rankingsGrid = <<>> /\ badges = <<>>
    /\ disk = {} /\ importData = <<>> /\ validationResults = Null
    /\ importResults = Null /\ importStep = 1 /\ reading = Idle /\ commit = Idle
    /\ uncaught = "none"
    /\ lastStored = Null /\ activeTab = "rankings" /\ recalculations = 0 /\ recommit = Idle
    /\ isAnalyzing = FALSE /\ analysis = 0
    /\ csvText = NoText /\ csvParsed = Null
    /\ doctors = <<>> /\ buckets = [reports |-> <<>>, dashboard |-> <<>>]

NextPage ==
    \/ MedFetchActive
    \/ \E o \in Outcomes, data \in ActiveConfigs \cup ServerWeights :
          ActiveConfigAnswered(o, data)
    \/ MedLoadCurrentWeights
    \/ \E ok \in BOOLEAN : MedLoadPresetSchemes(ok)
    \/ \E k \in MedKeys, value \in MedInputValues : MedUpdateWeight(k, value)
    \/ \E schemeId \in DefaultPresets \cup ServerPresets : MedApplyPresetScheme(schemeId)
    \/ \E confirmed \in BOOLEAN : MedResetWeights(confirmed)
    \/ \E roundsUp \in BOOLEAN : MedShowSaveWeightsModal(roundsUp)
    \/ MedDismissModal
    \/ MedSaveWeightsConfig
    \/ \E o \in Outcomes, setAsDefault \in BOOLEAN : MedSaveSettled(o, setAsDefault)
    \/ \E o \in Outcomes : MedActivateSettled(o)
    \/ \E o \in Outcomes : MedRecalculateSettled(o)
    \/ WFetchWeights
    \/ WLoadWeights
    \/ WLoadPresetSchemes
    \/ \E weightId \in DOMAIN weightMap :
          \E value \in SliderValues(weightMap[weightId]) : WUpdateWeight(weightId, value)
    \/ \E schemeId \in WPresetIds : WApplyPresetScheme(schemeId)
    \/ \E confirmed \in BOOLEAN : WResetWeights(confirmed)
    \/ \E roundsUp \in BOOLEAN : WSaveWeights(roundsUp)
    \/ \E o \in Outcomes, recalculate \in BOOLEAN : WSaveSettled(o, recalculate)
    \/ \E o \in Outcomes : WRecalculateSettled(o)

SpecPage == InitPage /\ [][NextPage]_vars

\* the scoring function on bounded inputs
InitScore ==
    /\ configs = SeededConfigs /\ seq = 4
    /\ module = "WeightsModule" /\ phase = "ready"
    /\ currentWeights \in ScoreConfigs
    /\ presetSchemes = WPresetIds /\ hasUnsavedChanges = FALSE /\ modal = "closed"
    /\ request = NoRequest /\ notification = "none"
    /\ example \in Examples /\ score = NoScore
    /\ population = <<>> /\ scores = <<>> /\ rows = <<>> /\ prevRows = <<>>
    /\ currentScores = <<>> /\ scoreFilter = "" /\ rankingsGrid = <<>> /\ badges = <<>>
    /\ disk = {} /\ importData = <<>> /\ validationResults = Null
    /\ importResults = Null /\ importStep = 1 /\ reading = Idle /\ commit = Idle
    /\ uncaught = "none"
    /\ lastStored = Null /\ activeTab = "rankings" /\ recalculations = 0 /\ recommit = Idle
    /\ isAnalyzing = FALSE /\ analysis = 0
    /\ csvText = NoText /\ csvParsed = Null
    /\ doctors = <<>> /\ buckets = [reports |-> <<>>, dashboard |-> <<>>]

NextScore == CalculateExampleScore

SpecScore == InitScore /\ [][NextScore]_vars

\* the ranking table over one population, listed in any order
InitRank ==
    /\ configs = SeededConfigs /\ seq = 4
    /\ module = "none" /\ phase = "constructed" /\ currentWeights = Null
    /\ presetSchemes = {} /\ hasUnsavedChanges = FALSE /\ modal = "closed"
    /\ request = NoRequest /\ notification = "none"
    /\ example = Null /\ score = NoScore
    /\ population \in Populations /\ scores = <<>> /\ rows = <<>> /\ prevRows = <<>>
    /\ currentScores = <<>> /\ scoreFilter = "" /\ rankingsGrid = <<>> /\ badges = <<>>
    /\ disk = {} /\ importData = <<>> /\ validationResults = Null
    /\ importResults = Null /\ importStep = 1 /\ reading = Idle /\ commit = Idle
    /\ uncaught = "none"
    /\ lastStored = Null /\ activeTab = "rankings" /\ recalculations = 0 /\ recommit = Idle
    /\ isAnalyzing = FALSE /\ analysis = 0
    /\ csvText = NoText /\ csvParsed = Null
    /\ doctors = <<>> /\ buckets = [reports |-> <<>>, dashboard |-> <<>>]

NextRank == \E order \in Orders(Len(population)) : LoadAnalysis(order)

SpecRank == InitRank /\ [][NextRank]_vars

\* the rankings view over one loaded population
InitTier ==
    /\ configs = SeededConfigs /\ seq = 4
    /\ module = "none" /\ phase = "constructed" /\ currentWeights = Null
    /\ presetSchemes = {} /\ hasUnsavedChanges = FALSE /\ modal = "closed"
    /\ request = NoRequest /\ notification = "none"
    /\ example = Null /\ score = NoScore
    /\ population = <<>> /\ scores = <<>> /\ rows = <<>> /\ prevRows = <<>>
    /\ currentScores \in {[i \in 1..Len(r) |-> [id |-> i, total_score |-> r[i]]] :
                            r \in Rankings}
    /\ scoreFilter = "" /\ rankingsGrid = renderRankingCards(currentScores)
    /\ badges = <<>>
    /\ disk = {} /\ importData = <<>> /\ validationResults = Null
    /\ importResults = Null /\ importStep = 1 /\ reading = Idle /\ commit = Idle
    /\ uncaught = "none"
    /\ lastStored = Null /\ activeTab = "rankings" /\ recalculations = 0 /\ recommit = Idle
    /\ isAnalyzing = FALSE /\ analysis = 0
    /\ csvText = NoText /\ csvParsed = Null
    /\ doctors = <<>> /\ buckets = [reports |-> <<>>, dashboard |-> <<>>]

NextTier ==
    \/ \E scoreRange \in ScoreRanges : FilterByScore(scoreRange)
    \/ RenderScoreBadges

SpecTier == InitTier /\ [][NextTier]_vars

\* the import page with one file to pick
InitImport ==
    /\ configs = SeededConfigs /\ seq = 4
    /\ module = "none" /\ phase = "constructed" /\ currentWeights = Null
    /\ presetSchemes = {} /\ hasUnsavedChanges = FALSE /\ modal = "closed"
    /\ request = NoRequest /\ notification = "none"
    /\ example = Null /\ score = NoScore
    /\ population = <<>> /\ scores = <<>> /\ rows = <<>> /\ prevRows = <<>>
    /\ currentScores = <<>> /\ scoreFilter = "" /\ rankingsGrid = <<>> /\ badges = <<>>
    /\ disk \in {{file} : file \in Files}
    /\ importData = <<>> /\ validationResults = Null
    /\ importResults = Null /\ importStep = 1 /\ reading = Idle /\ commit = Idle
    /\ uncaught = "none"
    /\ lastStored = Null /\ activeTab = "rankings" /\ recalculations = 0 /\ recommit = Idle
    /\ isAnalyzing = FALSE /\ analysis = 0
    /\ csvText = NoText /\ csvParsed = Null
    /\ doctors = <<>> /\ buckets = [reports |-> <<>>, dashboard |-> <<>>]

NextImport ==
    \/ \E file \in Files : HandleFileSelect(file)
    \/ ReadSettled
    \/ \E confirmed \in BOOLEAN : ConfirmImport(confirmed)
    \/ \E rowIndex \in 1..MaxUploadRows, ok \in BOOLEAN : SettleCreateDoctor(rowIndex, ok)
    \/ RestartImport

SpecImport == InitImport /\ [][NextImport]_vars

\* the preview step of an upload of more rows than one batch holds
InitCommit ==
    /\ configs = SeededConfigs /\ seq = 4
    /\ module = "none" /\ phase = "constructed" /\ currentWeights = Null
    /\ presetSchemes = {} /\ hasUnsavedChanges = FALSE /\ modal = "closed"
    /\ request = NoRequest /\ notification = "none"
    /\ example = Null /\ score = NoScore
    /\ population = <<>> /\ scores = <<>> /\ rows = <<>> /\ prevRows = <<>>
    /\ currentScores = <<>> /\ scoreFilter = "" /\ rankingsGrid = <<>> /\ badges = <<>>
    /\ disk \in {{CsvFile("doctors.csv", CsvText(FullHeader, GoodRows(n)))} :
                    n \in (batchSize + 1)..MaxBatchedRows}
    /\ importData \in {parseCSV(file.text).data : file \in disk}
    /\ validationResults = validateData(importData)
    /\ importResults = Null /\ importStep = 2 /\ reading = Idle /\ commit = Idle
    /\ uncaught = "none"
    /\ lastStored = Null /\ activeTab = "rankings" /\ recalculations = 0 /\ recommit = Idle
    /\ isAnalyzing = FALSE /\ analysis = 0
    /\ csvText = NoText /\ csvParsed = Null
    /\ doctors = <<>> /\ buckets = [reports |-> <<>>, dashboard |-> <<>>]

NextCommit ==
    \/ \E confirmed \in BOOLEAN : ConfirmImport(confirmed)
    \/ \E rowIndex \in 1..MaxBatchedRows, ok \in BOOLEAN : SettleCreateDoctor(rowIndex, ok)

SpecCommit == InitCommit /\ [][NextCommit]_vars

\* the scoring page before init() has loaded the rankings
InitRankings ==
    /\ configs = SeededConfigs /\ seq = 4
    /\ module = "none" /\ phase = "constructed" /\ currentWeights = Null
    /\ presetSchemes = {} /\ hasUnsavedChanges = FALSE /\ modal = "closed"
    /\ request = NoRequest /\ notification = "none"
    /\ example = Null /\ score = NoScore
    /\ population = <<>> /\ scores = <<>> /\ rows = <<>> /\ prevRows = <<>>
    /\ currentScores = <<>> /\ scoreFilter = "" /\ rankingsGrid = <<>> /\ badges = <<>>
    /\ disk = {} /\ importData = <<>> /\ validationResults = Null
    /\ importResults = Null /\ importStep = 1 /\ reading = Idle /\ commit = Idle
    /\ uncaught = "none"
    /\ lastStored = Null /\ activeTab = "rankings" /\ recalculations = 0 /\ recommit = Idle
    /\ isAnalyzing = FALSE /\ analysis = 0
    /\ csvText = NoText /\ csvParsed = Null
    /\ doctors = <<>> /\ buckets = [reports |-> <<>>, dashboard |-> <<>>]

NextRankings ==
    \/ \E ok \in BOOLEAN, answer \in RankedLists : ScoringInit(ok, answer)
    \/ \E tab \in Tabs : SwitchTab(tab)
    \/ \E scoreRange \in ScoreRanges : RankingsFilterByScore(scoreRange)
    \/ \E recommendation \in RecommendationOptions : FilterByRecommendation(recommendation)
    \/ \E confirmed \in BOOLEAN : RecalculateScores(confirmed)
    \/ \E ok \in BOOLEAN, loaded \in BOOLEAN, answer \in RankedLists :
          RecalculateScoresSettled(ok, loaded, answer)

SpecRankings == InitRankings /\ [][NextRankings]_vars

\* texts to parse: quoted lines, header spellings, blank texts, or none yet
InitParse ==
    /\ configs = SeededConfigs /\ seq = 4
    /\ module = "none" /\ phase = "constructed" /\ currentWeights = Null
    /\ presetSchemes = {} /\ hasUnsavedChanges = FALSE /\ modal = "closed"
    /\ request = NoRequest /\ notification = "none"
    /\ example = Null /\ score = NoScore
    /\ population = <<>> /\ scores = <<>> /\ rows = <<>> /\ prevRows = <<>>
    /\ currentScores = <<>> /\ scoreFilter = "" /\ rankingsGrid = <<>> /\ badges = <<>>
    /\ disk = {} /\ importData = <<>> /\ validationResults = Null
    /\ importResults = Null /\ importStep = 1 /\ reading = Idle /\ commit = Idle
    /\ uncaught = "none"
    /\ lastStored = Null /\ activeTab = "rankings" /\ recalculations = 0 /\ recommit = Idle
    /\ isAnalyzing = FALSE /\ analysis = 0
    /\ csvText \in QuotedLines \cup HeaderTexts \cup BlankTexts \cup {NoText}
    /\ csvParsed = Null
    /\ doctors = <<>> /\ buckets = [reports |-> <<>>, dashboard |-> <<>>]

NextParse ==
    \/ \E bom \in BOOLEAN : DownloadTemplate(bom)
    \/ ParseCSVLine
    \/ ParseCSV
    \/ ValidateData

SpecParse == InitParse /\ [][NextParse]_vars

\* the preview step of a small upload of complete rows
InitRecommit ==
    /\ configs = SeededConfigs /\ seq = 4
    /\ module = "none" /\ phase = "constructed" /\ currentWeights = Null
    /\ presetSchemes = {} /\ hasUnsavedChanges = FALSE /\ modal = "closed"
    /\ request = NoRequest /\ notification = "none"
    /\ example = Null /\ score = NoScore
    /\ population = <<>> /\ scores = <<>> /\ rows = <<>> /\ prevRows = <<>>
    /\ currentScores = <<>> /\ scoreFilter = "" /\ rankingsGrid = <<>> /\ badges = <<>>
    /\ disk \in {{CsvFile("doctors.csv", CsvText(FullHeader, GoodRows(n)))} :
                    n \in 1..MaxUploadRows}
    /\ importData \in {parseCSV(file.text).data : file \in disk}
    /\ validationResults = validateData(importData)
    /\ importResults = Null /\ importStep = 2 /\ reading = Idle /\ commit = Idle
    /\ uncaught = "none"
    /\ lastStored = Null /\ activeTab = "rankings" /\ recalculations = 0 /\ recommit = Idle
    /\ isAnalyzing = FALSE /\ analysis = 0
    /\ csvText = NoText /\ csvParsed = Null
    /\ doctors = <<>> /\ buckets = [reports |-> <<>>, dashboard |-> <<>>]

NextRecommit ==
    \/ \E confirmed \in BOOLEAN : ConfirmImport(confirmed)
    \/ \E rowIndex \in 1..MaxUploadRows, ok \in BOOLEAN : SettleCreateDoctor(rowIndex, ok)
    \/ \E confirmed \in BOOLEAN : ConfirmImportAgain(confirmed)
    \/ \E rowIndex \in 1..MaxUploadRows, ok \in BOOLEAN : SettleCreateDoctorAgain(rowIndex, ok)

SpecRecommit == InitRecommit /\ [][NextRecommit]_vars

\* the two weights pages with the record of what the store last gave or
\* took, and few positions of the controls
InitUnsaved ==
    /\ configs = SeededConfigs /\ seq = 4
    /\ module \in {"MedicalWeightsModule", "WeightsModule"}
    /\ phase = "constructed" /\ currentWeights = Null
    /\ presetSchemes = {} /\ hasUnsavedChanges = FALSE /\ modal = "closed"
    /\ request = NoRequest /\ notification = "none"
    /\ example = Null /\ score = NoScore
    /\ population = <<>> /\ scores = <<>> /\ rows = <<>> /\ prevRows = <<>>
    /\ currentScores = <<>> /\ scoreFilter = "" /\ rankingsGrid = <<>> /\ badges = <<>>
    /\ disk = {} /\ importData = <<>> /\ validationResults = Null
    /\ importResults = Null /\ importStep = 1 /\ reading = Idle /\ commit = Idle
    /\ uncaught = "none"
    /\ lastStored = NothingStored
    /\ activeTab = "rankings" /\ recalculations = 0 /\ recommit = Idle
    /\ isAnalyzing = FALSE /\ analysis = 0
    /\ csvText = NoText /\ csvParsed = Null
    /\ doctors = <<>> /\ buckets = [reports |-> <<>>, dashboard |-> <<>>]

NextUnsaved ==
    \/ MedFetchActive
    \/ \E o \in Outcomes, data \in ActiveConfigs \cup ServerWeights :
          ActiveConfigAnswered(o, data)
    \/ MedLoadCurrentWeights
    \/ \E ok \in BOOLEAN : MedLoadPresetSchemes(ok)
    \/ \E k \in {"account_influence_weight", "cost_effectiveness_weight"},
          value \in {2000, 4000} : MedUpdateWeight(k, value)
    \/ \E schemeId \in DefaultPresets \cup ServerPresets : MedApplyPresetScheme(schemeId)
    \/ \E confirmed \in BOOLEAN : MedResetWeights(confirmed)
    \/ \E roundsUp \in BOOLEAN : MedShowSaveWeightsModal(roundsUp)
    \/ MedDismissModal
    \/ MedSaveWeightsConfig
    \/ \E o \in Outcomes, setAsDefault \in BOOLEAN : MedSaveSettled(o, setAsDefault)
    \/ \E o \in Outcomes : MedActivateSettled(o)
    \/ \E o \in Outcomes : MedRecalculateSettled(o)
    \/ WFetchWeights
    \/ WLoadWeights
    \/ WLoadPresetSchemes
    \/ \E weightId \in {"influence-weight", "quality-weight"}, value \in {30, 40} :
          WUpdateWeight(weightId, value)
    \/ \E schemeId \in WPresetIds : WApplyPresetScheme(schemeId)
    \/ \E confirmed \in BOOLEAN : WResetWeights(confirmed)
    \/ \E roundsUp \in BOOLEAN : WSaveWeights(roundsUp)
    \/ \E o \in Outcomes, recalculate \in BOOLEAN : WSaveSettled(o, recalculate)
    \/ \E o \in Outcomes : WRecalculateSettled(o)

SpecUnsaved == InitUnsaved /\ [][NextUnsaved]_vars

\* the medical weights page, loaded and ready
InitAnalyze ==
    /\ configs = SeededConfigs /\ seq = 4
    /\ module = "MedicalWeightsModule" /\ phase = "ready"
    /\ currentWeights \in {LoadedMedicalWeights([status |-> "success", data |-> data]) :
                                data \in ActiveConfigs}
    /\ presetSchemes = DefaultPresets /\ hasUnsavedChanges = FALSE /\ modal = "closed"
    /\ request = NoRequest /\ notification = "none"
    /\ example = Null /\ score = NoScore
    /\ population = <<>> /\ scores = <<>> /\ rows = <<>> /\ prevRows = <<>>
    /\ currentScores = <<>> /\ scoreFilter = "" /\ rankingsGrid = <<>> /\ badges = <<>>
    /\ disk = {} /\ importData = <<>> /\ validationResults = Null
    /\ importResults = Null /\ importStep = 1 /\ reading = Idle /\ commit = Idle
    /\ uncaught = "none"
    /\ lastStored = Null /\ activeTab = "rankings" /\ recalculations = 0 /\ recommit = Idle
    /\ isAnalyzing = FALSE /\ analysis = 0
    /\ csvText = NoText /\ csvParsed = Null
    /\ doctors = <<>> /\ buckets = [reports |-> <<>>, dashboard |-> <<>>]

NextAnalyze ==
    \/ \E k \in MedKeys, value \in {2000, 4000} : MedUpdateWeight(k, value)
    \/ \E roundsUp \in BOOLEAN : MedAnalyzeWeightImpact(roundsUp)
    \/ \E o \in AnalysisOutcomes : MedAnalysisSettled(o)

SpecAnalyze == InitAnalyze /\ [][NextAnalyze]_vars

\* a population of doctors before either chart is drawn
InitChart ==
    /\ configs = SeededConfigs /\ seq = 4
    /\ module = "none" /\ phase = "constructed" /\ currentWeights = Null
    /\ presetSchemes = {} /\ hasUnsavedChanges = FALSE /\ modal = "closed"
    /\ request = NoRequest /\ notification = "none"
    /\ example = Null /\ score = NoScore
    /\ population = <<>> /\ scores = <<>> /\ rows = <<>> /\ prevRows = <<>>
    /\ currentScores = <<>> /\ scoreFilter = "" /\ rankingsGrid = <<>> /\ badges = <<>>
    /\ disk = {} /\ importData = <<>> /\ validationResults = Null
    /\ importResults = Null /\ importStep = 1 /\ reading = Idle /\ commit = Idle
    /\ uncaught = "none"
    /\ lastStored = Null /\ activeTab = "rankings" /\ recalculations = 0 /\ recommit = Idle
    /\ isAnalyzing = FALSE /\ analysis = 0
    /\ csvText = NoText /\ csvParsed = Null
    /\ doctors \in ChartDoctors
    /\ buckets = [reports |-> <<>>, dashboard |-> <<>>]

NextChart ==
    \/ RenderScoreDistribution
    \/ \E ok \in BOOLEAN : SetupScoreDistributionChart(ok)

SpecChart == InitChart /\ [][NextChart]_vars


(***************************************************************************)
(* Properties of the store (SpecStore)                                     *)
(***************************************************************************)
\* C1: after any sequence of single-row INSERTs and of single-row UPDATEs of
\* is_default, at most one row of medical_weight_configs has is_default = 1.
C1_AtMostOneDefault == Cardinality(DefaultRows) <= 1

\* C1, its case: a row other than the seeded default has been flagged and the
\* seeded default, still in the table, has lost the flag
C1_FlagMoved ==
    \E id \in RowIds :
        /\ id # 1 /\ configs[id].present /\ configs[id].is_default = 1
        /\ configs[1].present /\ configs[1].is_default = 0

\* C2: starting from the seeded state, whatever the schema permits, at least
\* one row stays flagged is_default = 1.
C2_AtLeastOneDefault == DefaultRows # {}

(***************************************************************************)
(* Properties of the weights page (SpecPage)                               *)
(***************************************************************************)
\* the body of the save request that is being sent
PostsMedical == request.kind = "saveMedical"
PostsWeights == request.kind = "updateWeights"

\* the sum of the five components as numbers add up (NaN absorbs)
ComponentSum(w) ==
    Add(Add(Add(Add(w.account_influence_weight, w.cost_effectiveness_weight),
                w.content_quality_weight), w.medical_credibility_weight),
        w.roi_prediction_weight)

\* C3: every configuration a save sends to the store has a component sum
\* within 0.01 of its total: |sum - 100| <= 0.01 for MedicalWeightsModule,
\* |influence + quality + activity - 1| <= 0.01 for WeightsModule.
C3_PostedSumWithinEpsilon ==
    /\ PostsMedical =>
          /\ ~IsNaN(ComponentSum(request.body))
          /\ Abs(ComponentSum(request.body) - 10000) <= 1
    /\ PostsWeights =>
          /\ ~IsNaN(WSum(request.body))
          /\ Abs(WSum(request.body) - 100) <= 1

\* C4: MedicalWeightsModule never sends a configuration with a component
\* outside that indicator's [minWeight, maxWeight].
C4_PostedWithinBounds ==
    PostsMedical =>
        \A k \in MedKeys :
            /\ ~IsNaN(request.body[k])
            /\ coreIndicators[k].minWeight <= request.body[k]
            /\ request.body[k] <= coreIndicators[k].maxWeight

\* the sum check certainly rejects w: the distance is beyond the epsilon and
\* not on it
MedSumRejected(w) == Abs(MedTotal(w) - 10000) > 10
WSumRejected(w) == Abs(WSum(w) - 100) > 1

\* C5: when the weight sum fails validation, a save performs no store request
\* and mutates nothing: the step that shows the sum error leaves
\* currentWeights, hasUnsavedChanges, the modal and the request as they were,
\* and from a state whose sum is rejected no step opens the save modal or
\* sends POST /api/weight-configs/medical or updateWeights.
C5_RejectedSaveChangesNothing ==
    [][ /\ (notification' = "weight_sum_error" /\ notification # "weight_sum_error")
            => UNCHANGED <<currentWeights, hasUnsavedChanges, modal, request>>
        /\ (IsMedical /\ phase = "ready" /\ MedSumRejected(currentWeights))
            => (modal' = "closed" /\ request'.kind # "saveMedical")
        /\ (IsWeights /\ phase = "ready" /\ WSumRejected(currentWeights)
              /\ request.kind # "updateWeights")
            => request'.kind # "updateWeights"
      ]_vars

\* C5, its case: a save has just been turned down on edited weights
C5_SaveTurnedDown ==
    /\ notification = "weight_sum_error"
    /\ hasUnsavedChanges
    /\ request = NoRequest /\ modal = "closed"
    /\ IF IsMedical THEN MedSumRejected(currentWeights)
       ELSE WSumRejected(currentWeights)

ScenarioA ==
    /\ score.done
    /\ example.influence = 80 /\ example.quality = 60 /\ example.activity = 70

MainWeights == <<currentWeights.influence_weight, currentWeights.quality_weight,
                 currentWeights.activity_weight>>

DocumentedBonus(title) ==
    CASE title = "chief_physician"           -> 15
      [] title = "associate_chief_physician" -> 10
      [] title = "attending_physician"       -> 5
      [] title = "resident_physician"        -> 0

\* C8: with title_weight_factor 0.1 the score is the base score plus the
\* documented bonus: +15% chief physician, +10% associate chief physician,
\* +5% attending physician, 0% resident physician.
C8_DocumentedTitleBonus ==
    (/\ score.done
     /\ currentWeights.title_weight_factor = 10
     /\ example.title # "other") =>
        score.value * 100 =
            (example.influence * currentWeights.influence_weight
             + example.quality * currentWeights.quality_weight
             + example.activity * currentWeights.activity_weight)
            * 1000 * (100 + DocumentedBonus(example.title))

\* C9: for every configuration the save check accepts, every title, every
\* title_weight_factor in 0..0.3 and sub-scores in 0..100, the score lies in
\* 0..100.
C9_ScoreWithin0And100 ==
    (/\ score.done
     /\ currentWeights.influence_weight + currentWeights.quality_weight
        + currentWeights.activity_weight = 100
     /\ currentWeights.title_weight_factor \in 0..30) =>
        (0 <= score.value /\ score.value <= 100 * Point)

(***************************************************************************)
(* Properties of the ranking table (SpecRank)                              *)
(***************************************************************************)
\* the rank the table shows for a doctor
RankIn(table, id) ==
    (CHOOSE i \in 1..Len(table) : table[i].doctor_id = id)

RanksWellFormed ==
    /\ Len(rows) = Len(scores)
    /\ \A i \in 1..Len(rows) : rows[i].rank = i
    /\ \A i \in 1..Len(scores) : \E j \in 1..Len(rows) :
          /\ rows[j].doctor_id = scores[i].doctor_id
          /\ rows[j].weighted_total_score = scores[i].weighted_total_score
    /\ \A i, j \in 1..Len(rows) :
          i < j => rows[i].weighted_total_score >= rows[j].weighted_total_score

\* C10 as stated: the table is ordered by weighted_total_score descending with
\* ranks 1..n and ties go by the doctor's identifier, so two listings of the
\* same records give every doctor the same rank.
C10_TiesByIdentifier ==
    /\ RanksWellFormed
    /\ \A i, j \in 1..Len(rows) :
          (i < j /\ rows[i].weighted_total_score = rows[j].weighted_total_score)
              => rows[i].doctor_id < rows[j].doctor_id
    /\ prevRows # <<>> =>
          \A id \in 1..Len(population) : RankIn(rows, id) = RankIn(prevRows, id)

\* the position of a doctor's record in the listing
ListedAt(id) == CHOOSE i \in 1..Len(scores) : scores[i].doctor_id = id

\* C10 as amended: the table is ordered by weighted_total_score descending
\* with ranks 1..n; records with equal scores keep the order of the listing;
\* two listings of the same records give every doctor the same rank when the
\* scores are pairwise distinct.
C10_TiesByListingOrder ==
    /\ RanksWellFormed
    /\ \A i, j \in 1..Len(rows) :
          (i < j /\ rows[i].weighted_total_score = rows[j].weighted_total_score)
              => ListedAt(rows[i].doctor_id) < ListedAt(rows[j].doctor_id)
    /\ (/\ prevRows # <<>>
        /\ \A a, b \in 1..Len(population) : a # b => population[a] # population[b])
          => \A id \in 1..Len(population) : RankIn(rows, id) = RankIn(prevRows, id)

\* C10, its case: two listings of the same records, with a tie, have been
\* rendered and a doctor's rank differs between them
C10_RankDependsOnListing ==
    /\ prevRows # <<>> /\ Len(rows) = Len(prevRows)
    /\ \E id \in 1..Len(population) : RankIn(rows, id) # RankIn(prevRows, id)

(***************************************************************************)
(* Properties of the score tiers (SpecTier)                                *)
(***************************************************************************)
\* the entries of currentScores that have a card in the grid
ShownIds == {rankingsGrid[i].id : i \in 1..Len(rankingsGrid)}

\* C11: the tiers partition the scores at 80 and 60: under each of the
\* filters high, medium and low the grid shows exactly the doctors whose
\* badge from getScoreBadge is that tier, so every score passes exactly one of
\* the three filters, the one its badge names.
C11_TiersPartitionScores ==
    (badges # <<>> /\ scoreFilter \in {"high", "medium", "low"}) =>
        \A i \in 1..Len(currentScores) :
            (currentScores[i].id \in ShownIds) <=> (badges[i] = scoreFilter)

\* C11, its case: a doctor exactly on the threshold 60 is shown under the
\* medium filter and carries a badge
C11_OnThreshold ==
    /\ badges # <<>> /\ scoreFilter = "medium"
    /\ \E i \in 1..Len(currentScores) :
          /\ currentScores[i].total_score = 6000
          /\ currentScores[i].id \in ShownIds

(***************************************************************************)
(* Properties of the import (SpecImport, SpecCommit)                       *)
(***************************************************************************)
\* the parsed row has a non-blank value in a column that stands for the field
HasField(row, field) ==
    \E j \in 1..Len(row) :
        /\ row[j].key \in DOMAIN fieldMap
        /\ fieldMap[row[j].key] = field
        /\ row[j].value # ""

\* the entries of a list of validationResults that carry the row number
EntriesOf(list, rowIndex) == {j \in 1..Len(list) : list[j].rowIndex = rowIndex}

\* C12: every record in validationResults.valid has a non-blank name, title,
\* hospital and department, whatever the header row of the upload, and every
\* row that lacks one of them is in validationResults.invalid with an error.
C12_ValidHasRequiredFields ==
    validationResults # Null =>
        /\ \A i \in 1..Len(validationResults.valid) :
              \A field \in requiredFields :
                  /\ field \in DOMAIN validationResults.valid[i].data
                  /\ validationResults.valid[i].data[field] # ""
        /\ \A r \in 1..Len(importData) :
              (\E field \in requiredFields : ~HasField(importData[r], field)) =>
                  \E j \in EntriesOf(validationResults.invalid, r) :
                      Len(validationResults.invalid[j].errors) > 0

\* the fields the row has a column for
ColumnsOf(row) ==
    {fieldMap[row[j].key] : j \in {i \in 1..Len(row) : row[i].key \in DOMAIN fieldMap}}

\* the number the row's response-rate cell parses to
RawRate(row) == ParseRate(Get(row, "response_rate"))

WarnedRows ==
    {validationResults.valid[i].rowIndex :
        i \in {j \in 1..Len(validationResults.valid) :
                    Len(validationResults.valid[j].warnings) > 0}}

\* C14: warnings do not stop the commit: when the validated upload has
\* validCount > 0 and a valid record with a warning, and the user answers the
\* confirmation with yes, confirmImport runs performImport with no error
\* escaping, and the warned rows are sent to the store (the commit then ends
\* in step 3).
C14_WarnedUploadCommitted ==
    [][ ( /\ ConfirmImport(TRUE)
          /\ validationResults.summary.validCount > 0
          /\ WarnedRows # {} )
        => ( /\ uncaught' = "none"
             /\ commit'.status = "running"
             /\ \A rowIndex \in WarnedRows : commit'.attempts[rowIndex] = 1 ) ]_vars

\* Scenario C: three data rows, the second with an empty name, the others
\* complete
ScenarioC ==
    /\ Len(importData) = 3
    /\ \A r \in {1, 3} : \A field \in requiredFields : HasField(importData[r], field)
    /\ Get(importData[2], "name") = ""
    /\ \A field \in requiredFields \ {"name"} : HasField(importData[2], field)

\* C15: the final import result accounts for every uploaded row: its total is
\* the number of uploaded data rows and equals successCount + failedCount,
\* every row validation turned down is in its failure list, and for Scenario C
\* with every store write succeeding it has successCount = 2 and
\* failedCount = 1 with a failure entry for row 2.
C15_ResultAccountsForEveryRow ==
    (importStep = 3 /\ importResults # Null /\ validationResults # Null) =>
        /\ importResults.summary.total = Len(importData)
        /\ importResults.summary.successCount + importResults.summary.failedCount
              = Len(importData)
        /\ \A i \in 1..Len(validationResults.invalid) :
              \E entry \in importResults.failed :
                  entry.rowIndex = validationResults.invalid[i].rowIndex
        /\ (ScenarioC /\ {entry.rowIndex : entry \in importResults.success} = {1, 3}) =>
              /\ importResults.summary.successCount = 2
              /\ importResults.summary.failedCount = 1
              /\ \E entry \in importResults.failed : entry.rowIndex = 2

\* C16: validateData partitions the data rows: every row has exactly one
\* entry, in valid or in invalid, under its 1-based position; it is in invalid
\* exactly when validateRow found an error; validCount + invalidCount = total;
\* warningCount is the number of valid rows with a warning.
C16_ValidationPartitionsRows ==
    validationResults # Null =>
        LET valid   == validationResults.valid
            invalid == validationResults.invalid
            summary == validationResults.summary
        IN  /\ \A r \in 1..Len(importData) :
                  LET validation == validateRow(importData[r], getFieldMapping(importData[1]))
                  IN  /\ Cardinality(EntriesOf(valid, r)) + Cardinality(EntriesOf(invalid, r)) = 1
                      /\ (EntriesOf(invalid, r) # {}) <=> (Len(validation.errors) > 0)
                      /\ \A j \in EntriesOf(invalid, r) :
                            /\ invalid[j].data = importData[r]
                            /\ invalid[j].errors = validation.errors
                      /\ \A j \in EntriesOf(valid, r) :
                            /\ valid[j].data = validation.normalizedData
                            /\ valid[j].warnings = validation.warnings
            /\ \A j \in 1..Len(valid) : valid[j].rowIndex \in 1..Len(importData)
            /\ \A j \in 1..Len(invalid) : invalid[j].rowIndex \in 1..Len(importData)
            /\ summary.total = Len(importData)
            /\ summary.validCount = Len(valid)
            /\ summary.invalidCount = Len(invalid)
            /\ summary.validCount + summary.invalidCount = summary.total
            /\ summary.warningCount =
                  Cardinality({j \in 1..Len(valid) : Len(valid[j].warnings) > 0})

\* C16, its case: an upload of three rows was validated into a valid row
\* without a warning, a valid row with one and an invalid row
C16_MixedUploadValidated ==
    /\ validationResults # Null
    /\ Len(importData) = 3
    /\ validationResults.summary.validCount = 2
    /\ validationResults.summary.warningCount = 1
    /\ validationResults.summary.invalidCount = 1

\* the row numbers in a list of results
RowsIn(entries) == {entry.rowIndex : entry \in entries}

\* C17: a store failure on a record never aborts the commit.  A commit starts
\* with exactly the records of validationResults.valid (none of invalid);
\* whichever createDoctor calls fail, every record is sent at most once while
\* the commit runs, every settled record is in exactly one of results.success
\* and results.failed, and when performImport returns every record was sent
\* exactly once, successCount + failedCount = total = the number of valid
\* records, and the results reach confirmImport.
C17_FailuresDoNotAbortCommit ==
    [][ /\ (commit.status # "running" /\ commit'.status = "running") =>
              /\ DOMAIN commit'.attempts =
                    {validationResults.valid[i].rowIndex :
                        i \in 1..Len(validationResults.valid)}
              /\ commit'.results.summary.total = Len(validationResults.valid)
              /\ \A i \in 1..Len(validationResults.invalid) :
                    validationResults.invalid[i].rowIndex \notin DOMAIN commit'.attempts
        /\ (commit'.status \in {"running", "done"}) =>
              LET results == commit'.results
                  sent    == {r \in DOMAIN commit'.attempts : commit'.attempts[r] > 0}
              IN  /\ \A r \in DOMAIN commit'.attempts : commit'.attempts[r] <= 1
                  /\ RowsIn(results.success) \cap RowsIn(results.failed) = {}
                  /\ RowsIn(results.success) \cup RowsIn(results.failed)
                        = sent \ commit'.pending
                  /\ results.summary.successCount = Cardinality(results.success)
                  /\ results.summary.successCount = Cardinality(RowsIn(results.success))
                  /\ results.summary.failedCount = Cardinality(results.failed)
                  /\ results.summary.failedCount = Cardinality(RowsIn(results.failed))
        /\ (commit'.status = "done") =>
              /\ \A r \in DOMAIN commit'.attempts : commit'.attempts[r] = 1
              /\ commit'.results.summary.successCount + commit'.results.summary.failedCount
                    = commit'.results.summary.total
              /\ commit'.results.summary.total = Cardinality(DOMAIN commit'.attempts)
              /\ importResults' = commit'.results ]_vars

\* C17, its case: a commit has returned with one record stored and one
\* store failure, the upload holding an invalid row as well
C17_CommitWithFailureReturned ==
    /\ commit.status = "done"
    /\ importStep = 3
    /\ importResults # Null
    /\ importResults.summary.failedCount = 1
    /\ importResults.summary.successCount = 1
    /\ validationResults # Null
    /\ validationResults.summary.invalidCount = 1

\* the requests in flight, by position of their record in the valid set
InFlight ==
    {i \in 1..Len(validationResults.valid) :
        validationResults.valid[i].rowIndex \in commit.pending}

\* the records createDoctor was called for, by position in the valid set
Requested ==
    {i \in 1..Len(validationResults.valid) :
        commit.attempts[validationResults.valid[i].rowIndex] > 0}

\* C18: a commit has bounded concurrency: at most 10 createDoctor requests are
\* in flight at any time, and no request for a record of a later group of ten
\* has started while a request of an earlier group is unsent or in flight.
C18_AtMostTenInFlight ==
    commit.status = "running" =>
        /\ Cardinality(commit.pending) <= 10
        /\ Cardinality(InFlight) = Cardinality(commit.pending)
        /\ \A i, j \in 1..Len(validationResults.valid) :
              ((i - 1) \div 10 < (j - 1) \div 10 /\ j \in Requested) =>
                  (i \in Requested /\ i \notin InFlight)

\* C18, its case: the first ten requests have settled and the eleventh
\* record's request is in flight
C18_SecondBatchInFlight ==
    /\ commit.status = "running"
    /\ 11 \in InFlight
    /\ Cardinality(commit.results.success) + Cardinality(commit.results.failed) = 10

\* the state of the module before an upload
Uploaded ==
    /\ importStep = 1
    /\ importData = <<>>
    /\ validationResults = Null
    /\ importResults = Null

\* C19: the pipeline can be restarted at any point without residue:
\* restartImport, also while a file is read or a commit is under way, leaves
\* importStep = 1, importData empty and validationResults and importResults
\* null, and from then on, as long as no newly selected file has been read,
\* no step changes that state.
C19_RestartLeavesNoResidue ==
    [][ /\ RestartImport => Uploaded'
        /\ (Uploaded /\ (reading = Idle \/ reading.stale)) => Uploaded' ]_vars

\* C20: importStep follows the pipeline: it changes only from 1 to 2, from 2
\* to 3 or to 1; whenever it is 2 or 3 validationResults is not null; a file
\* that fails to parse leaves it unchanged.
C20_StepsFollowPipeline ==
    [][ /\ (importStep' # importStep) =>
              \/ importStep = 1 /\ importStep' = 2
              \/ importStep = 2 /\ importStep' = 3
              \/ importStep' = 1
        /\ (importStep' \in {2, 3}) => validationResults' # Null
        /\ (ReadSettled /\ ~parseCSV(reading.file.text).ok) => importStep' = importStep ]_vars


(***************************************************************************)
(* Properties of recalculation, parsing, rankings and charts               *)
(***************************************************************************)
\* the step in which confirmImport returns from performImport with at least
\* one record persisted
CommitCompletes ==
    /\ commit.status = "running"
    /\ commit'.status = "done"
    /\ commit'.results.summary.successCount >= 1

\* a plain read of ScoringModule: loading, filtering, switching tabs
PlainRead ==
    \/ \E ok \in BOOLEAN, answer \in RankedLists : ScoringInit(ok, answer)
    \/ \E tab \in Tabs : SwitchTab(tab)
    \/ \E scoreRange \in ScoreRanges : RankingsFilterByScore(scoreRange)
    \/ \E recommendation \in RecommendationOptions : FilterByRecommendation(recommendation)

\* C21: a commit triggers recalculation: the step in which confirmImport
\* completes a commit with at least one persisted record issues a score
\* recalculation request, and a plain read (loadScores, a filter, a tab
\* switch) issues none.
C21_CommitIssuesRecalculation ==
    [][ /\ CommitCompletes => recalculations' > recalculations
        /\ PlainRead => recalculations' = recalculations ]_vars

\* the header cells of the text as they were written
WrittenHeaders ==
    [j \in 1..Len(csvText.cells[1]) |-> TextOf(csvText.cells[1][j].content)]

\* C22: header matching ignores letter case and surrounding whitespace: a
\* header whose trimmed lower-case form is a synonym of the table is mapped
\* to that synonym's canonical field, and a header without synonym is left
\* unmapped.
C22_HeaderCaseIgnored ==
    (csvParsed # Null /\ csvParsed.step = "validated" /\ csvText \in HeaderTexts) =>
        \A j \in 1..Len(WrittenHeaders) :
            LET folded == Trim(LowerCase(WrittenHeaders[j]))
                mapped == Get(csvParsed.mapping, Trim(WrittenHeaders[j]))
            IN  IF folded \in DOMAIN fieldMap
                THEN mapped = fieldMap[folded]
                ELSE mapped = ""

\* the template has been written, read back, parsed and validated
TemplateValidated ==
    /\ csvParsed # Null
    /\ csvParsed.step = "validated"
    /\ \E bom \in BOOLEAN : csvText = downloadTemplate(bom)

\* C23: the template round-trips: each of its data rows is valid, without
\* error and without warning, and each of its ten headers is mapped to a
\* canonical field.
C23_TemplateRoundTrips ==
    TemplateValidated =>
        LET results == csvParsed.results
        IN  /\ Len(csvParsed.data) = Len(sampleData)
            /\ Len(results.valid) = Len(sampleData)
            /\ \A i \in 1..Len(results.valid) : Len(results.valid[i].warnings) = 0
            /\ Len(results.invalid) = 0
            /\ results.summary.invalidCount = 0
            /\ results.summary.warningCount = 0
            /\ Len(csvParsed.mapping) = Len(templateHeaders)
            /\ \A j \in 1..Len(templateHeaders) :
                    Get(csvParsed.mapping, templateHeaders[j])
                        \in requiredFields \cup countFields \cup {"response_rate"}

\* the template with its byte order mark has gone through validation
C23_TemplateWithMarkValidated ==
    /\ csvParsed # Null
    /\ csvParsed.step = "validated"
    /\ csvText = downloadTemplate(TRUE)

\* the commas of a line with an even number of quotes before them
UnquotedCommas(line) ==
    {p \in 1..Len(line) :
        /\ line[p] = Comma
        /\ Cardinality({q \in 1..(p - 1) : line[q] = Quote}) % 2 = 0}

\* C24: parseCSVLine splits on the commas outside quotes only: the values of
\* a line are the cells it was written from (a quoted cell keeps its commas,
\* a doubled quote gives one quote, the delimiting quotes are dropped), and
\* there is one value more than there are unquoted commas; parseCSV throws
\* exactly when the text has no non-blank line.
C24_SplitsOutsideQuotes ==
    /\ (csvParsed # Null /\ csvParsed.step = "line" /\ Len(csvText.cells) = 1) =>
            LET cells == csvText.cells[1]
            IN  /\ Len(csvParsed.values) = Len(cells)
                /\ \A j \in 1..Len(cells) : csvParsed.values[j] = TextOf(cells[j].content)
                /\ Len(csvParsed.values) =
                        1 + Cardinality(UnquotedCommas(csvText.lines[1]))
    /\ (csvParsed # Null /\ csvParsed.step = "parsed") =>
            (csvParsed.ok <=>
                \E i \in 1..Len(csvText.lines) :
                    \E k \in 1..Len(csvText.lines[i]) : Trim(csvText.lines[i][k]) # "")

\* a line of two quoted cells, a comma in one and a quote in the other, has
\* been split
C24_QuotedCommaAndQuoteSplit ==
    /\ csvParsed # Null
    /\ csvParsed.step = "line"
    /\ Len(csvText.cells) = 1
    /\ csvText.cells[1] = <<[quoted |-> TRUE, content |-> <<Comma>>],
                            [quoted |-> TRUE, content |-> <<Quote>>]>>

\* C25: with "set as default" checked the recalculate request is sent only
\* after the activation request has completed successfully: a recalculate
\* request is sent only by the step that settles the activation, not when
\* the activation failed, and a failed save is followed by no request.
C25_RecalculateOnlyAfterActivation ==
    [][ /\ (IsMedical /\ request'.kind = "recalculate" /\ request.kind # "recalculate")
                => Pending("activate")
        /\ (\E o \in Failures : MedActivateSettled(o)) => request'.kind # "recalculate"
        /\ (\E o \in Failures, setAsDefault \in BOOLEAN : MedSaveSettled(o, setAsDefault))
                => request' = NoRequest ]_vars

\* a step of one of the two filters of the rankings tab
FilterApplied ==
    \/ \E scoreRange \in ScoreRanges : RankingsFilterByScore(scoreRange)
    \/ \E recommendation \in RecommendationOptions : FilterByRecommendation(recommendation)

\* the place of doctor id in the list
PositionIn(list, id) == CHOOSE j \in 1..Len(list) : list[j].id = id

\* C26: the rank number shown for a doctor is the doctor's position in
\* currentScores, with or without a score filter or a recommendation filter,
\* and applying a filter leaves currentScores unchanged.
C26_RankIsPopulationPosition ==
    [][ FilterApplied =>
            /\ currentScores' = currentScores
            /\ \A i \in 1..Len(rankingsGrid') :
                    rankingsGrid'[i].rank_number =
                        PositionIn(currentScores, rankingsGrid'[i].id) ]_vars

\* the createDoctor calls a performImport call has made for the record of row r
SentBy(c, r) == IF c = Idle THEN 0 ELSE c.attempts[r]

\* C27: an upload is committed at most once: when confirmImport is triggered
\* again while a commit is in flight, or after it finished without a new
\* upload, no valid record goes to createDoctor a second time.
C27_CommittedAtMostOnce ==
    \A r \in 1..Len(importData) : SentBy(commit, r) + SentBy(recommit, r) <= 1

\* a step in which a save request of either page comes back failed
SaveFails ==
    \/ \E o \in Failures, setAsDefault \in BOOLEAN : MedSaveSettled(o, setAsDefault)
    \/ \E o \in Failures, recalculate \in BOOLEAN : WSaveSettled(o, recalculate)

\* C28: on both weights pages, once a configuration has been loaded from or
\* saved to the store, hasUnsavedChanges = false implies that currentWeights
\* is the configuration last loaded or saved, whatever the updates, presets,
\* saves and resets before; a failed save leaves hasUnsavedChanges true.
C28_CleanMeansStored ==
    [][ /\ (~hasUnsavedChanges' /\ lastStored' # NothingStored)
                => currentWeights' = lastStored'
        /\ (SaveFails /\ hasUnsavedChanges) => hasUnsavedChanges' ]_vars

\* a call of analyzeWeightImpact
AnalyzeCalled == \E roundsUp \in BOOLEAN : MedAnalyzeWeightImpact(roundsUp)

\* the sum of the current weights is turned down, however the rounding falls
SumInvalid == \A roundsUp \in BOOLEAN : ~validateWeightsForSaving(currentWeights, roundsUp)

\* C29: at most one analysis request is in flight: a call of
\* analyzeWeightImpact while isAnalyzing is true sends no request, a call
\* with an invalid weight sum sends none and leaves isAnalyzing as it is, and
\* the step in which the request settles (success, error answer or throw)
\* resets isAnalyzing to false, which is true as long as the request is out.
C29_OneAnalysisInFlight ==
    [][ /\ analysis' <= 1
        /\ (analysis' = 1) => isAnalyzing'
        /\ (AnalyzeCalled /\ isAnalyzing) => analysis' = analysis
        /\ (AnalyzeCalled /\ SumInvalid) =>
                (analysis' = analysis /\ isAnalyzing' = isAnalyzing)
        /\ (\E o \in AnalysisOutcomes : MedAnalysisSettled(o)) =>
                (~isAnalyzing' /\ analysis' = 0) ]_vars

\* a request is out with isAnalyzing set, and a notification has been shown
\* since the page was ready, as a call that is turned down shows one
C29_CalledWhileAnalyzing ==
    isAnalyzing /\ analysis = 1 /\ notification = "other"

RECURSIVE SumOf(_)
\* the sum of a sequence of counts
SumOf(counts) == IF counts = <<>> THEN 0 ELSE Head(counts) + SumOf(Tail(counts))

\* C30: the buckets count every doctor exactly once: for a population whose
\* scores lie in 0..100, fractional scores included, the bucket counts of
\* renderScoreDistribution and of setupScoreDistributionChart each sum to
\* the number of doctors.
C30_BucketsCountEveryDoctor ==
    /\ buckets.reports # <<>> => SumOf(buckets.reports) = Len(doctors)
    /\ buckets.dashboard # <<>> => SumOf(buckets.dashboard) = Len(doctors)

=============================================================================
